---- MODULE Spec2Model ----
(***************************************************************************)
(* A model of gsettings-ui: the tree of schemas, keys and values built by  *)
(* GSettingsViewer.load_schemas / parse_key (src/gsettings-ui.py), the     *)
(* recomposition of a key value from its subtree by                        *)
(* GSettingsEditor.rebuild_item / gather_variant and the commit of one     *)
(* edited leaf by GSettingsEditor.accept_change (src/gsedit.py), over the  *)
(* data classes of src/gimodel.py.                                         *)
(*                                                                         *)
(* Python strings are sequences of one-character strings, so that          *)
(* indexing (tv[0]), startswith and substring tests are the code's.        *)
(* A Python object is a record [items, kind, v]; a GLib.Variant is a       *)
(* record [ch, ts, val] (children, type string, leaf payload).             *)
(***************************************************************************)
EXTENDS Integers, Sequences, FiniteSets, TLC

(***************************************************************************)
(* Bounds of the model.                                                    *)
(***************************************************************************)
\* the number of accept_change calls, and of direct calls of a setter of
\* GiValue or GiKey, explored in one run
MaxAccepts == 1

\* the number of accept_change calls in a run of several editing sessions
MaxSessions == 2

\* the number of key releases in the search box that schedule a search
MaxKeys == 3

\* the milliseconds that pass in one step of the clock
TimeStep == 150

\* the editors that are open at one time
MaxEditors == 2

\* the length of the text typed into the search box
MaxTyped == 2

\* the <<TreeviewSelect>> events that wait in the event queue at one time
MaxSelects == 2

(***************************************************************************)
(* Program constants.                                                      *)
(***************************************************************************)
\* GLib's range of the byte type 'y' and of the int32 type 'i'
ByteMax == 255
Int16Max == 32767
UInt16Max == 65535
Int32Max == 2147483647

\* GSettingsViewer.SEARCH_DELAY and MAX_ASCII: milliseconds, and a key code
SEARCH_DELAY == 300
MAX_ASCII == 256

(***************************************************************************)
(* Python strings.                                                         *)
(***************************************************************************)
Digits == <<"0", "1", "2", "3", "4", "5", "6", "7", "8", "9">>

IsDigit(c) == \E d \in 1..10 : Digits[d] = c

DigitVal(c) == (CHOOSE d \in 1..10 : Digits[d] = c) - 1

\* s.startswith(p)
StartsWith(s, p) == Len(s) >= Len(p) /\ SubSeq(s, 1, Len(p)) = p

\* p in s, for strings: p is a substring of s
IsSubstring(p, s) ==
    \E i \in 0..Len(s) : i + Len(p) <= Len(s) /\ SubSeq(s, i + 1, i + Len(p)) = p

\* c in s, for one character c
CharIn(c, s) == \E i \in 1..Len(s) : s[i] = c

RECURSIVE NatToText(_)
NatToText(n) ==
    IF n < 10 THEN <<Digits[n + 1]>>
    ELSE NatToText(n \div 10) \o <<Digits[(n % 10) + 1]>>

\* str(n) of a Python int
IntToText(n) == IF n < 0 THEN <<"-">> \o NatToText(0 - n) ELSE NatToText(n)

RECURSIVE DigitsToNat(_)
DigitsToNat(s) ==
    IF s = <<>> THEN 0
    ELSE 10 * DigitsToNat(SubSeq(s, 1, Len(s) - 1)) + DigitVal(s[Len(s)])

AllDigits(s) == \A i \in 1..Len(s) : IsDigit(s[i])

RECURSIVE Pow10(_)
Pow10(e) == IF e = 0 THEN 1 ELSE 10 * Pow10(e - 1)

(***************************************************************************)
(* Python objects.  kind is the Python type; items holds the elements of a *)
(* list or tuple and the [key, val] entries of a dict in insertion order;  *)
(* v holds a bool, an int, a float as <<m, e>> (m * 10^-e, normalised) or a *)
(* str as a character sequence, each in its own field of a payload record; *)
(* the GLib.Variant of kind "Variant" is the one element of items.         *)
(***************************************************************************)
NoVal == [b |-> FALSE, n |-> 0, f |-> <<0, 0>>, s |-> <<>>]
VB(b) == [NoVal EXCEPT !.b = b]
VN(n) == [NoVal EXCEPT !.n = n]
VF(f) == [NoVal EXCEPT !.f = f]
VS(s) == [NoVal EXCEPT !.s = s]

PyNone == [items |-> <<>>, kind |-> "NoneType", v |-> NoVal]
PyBool(b) == [items |-> <<>>, kind |-> "bool", v |-> VB(b)]
PyIntV(n) == [items |-> <<>>, kind |-> "int", v |-> VN(n)]
PyFloatV(f) == [items |-> <<>>, kind |-> "float", v |-> VF(f)]
PyStr(s) == [items |-> <<>>, kind |-> "str", v |-> VS(s)]
PyList(xs) == [items |-> xs, kind |-> "list", v |-> NoVal]
PyTuple(xs) == [items |-> xs, kind |-> "tuple", v |-> NoVal]
PyDict(es) == [items |-> es, kind |-> "dict", v |-> NoVal]
PyVariant(g) == [items |-> <<g>>, kind |-> "Variant", v |-> NoVal]

\* the GLib.Variant a Python object of kind "Variant" is
GV(x) == x.items[1]

\* the result of a call: exc is "" and res the returned object, or exc names
\* the exception raised
Ok(x) == [exc |-> "", res |-> x]
Raise(e) == [exc |-> e, res |-> 0]

\* one statement after another: F applied to the value x evaluates to
Then(x, F(_)) == CHOOSE r \in {F(y) : y \in {x}} : TRUE

\* d[key] = val on a dict's entries: overwrite in place or append
RECURSIVE DictSet(_, _, _)
DictSet(es, key, val) ==
    IF es = <<>> THEN <<[key |-> key, val |-> val]>>
    ELSE IF Head(es).key = key THEN <<[key |-> key, val |-> val]>> \o Tail(es)
    ELSE <<Head(es)>> \o DictSet(Tail(es), key, val)

\* normal form of the decimal m * 10^-e: no trailing zero in the fraction
RECURSIVE NormFloat(_, _)
NormFloat(m, e) ==
    IF e > 0 /\ m % 10 = 0 THEN NormFloat(m \div 10, e - 1) ELSE <<m, e>>

\* int(text): optional sign, then one or more decimal digits (the texts of
\* the model hold no white space and no underscore)
PyInt(text) ==
    LET neg == text # <<>> /\ text[1] = "-"
        signed == text # <<>> /\ text[1] \in {"-", "+"}
        body == IF signed THEN Tail(text) ELSE text
    IN  IF body # <<>> /\ AllDigits(body)
        THEN Ok(PyIntV(IF neg THEN 0 - DigitsToNat(body) ELSE DigitsToNat(body)))
        ELSE Raise("ValueError")

\* float(text): digits, optionally a point and more digits, or a point and
\* digits (no sign, exponent, inf or nan in the texts of the model)
PyFloat(text) ==
    LET dots == {i \in 1..Len(text) : text[i] = "."}
        dot == IF dots = {} THEN Len(text) + 1 ELSE CHOOSE i \in dots : TRUE
        ip == SubSeq(text, 1, dot - 1)
        fp == SubSeq(text, dot + 1, Len(text))
    IN  IF Cardinality(dots) <= 1 /\ AllDigits(ip) /\ AllDigits(fp)
           /\ Len(ip) + Len(fp) > 0
        THEN Ok(PyFloatV(NormFloat(DigitsToNat(ip \o fp), Len(fp))))
        ELSE Raise("ValueError")

RECURSIVE PadLeft(_, _)
PadLeft(s, n) == IF Len(s) >= n THEN s ELSE PadLeft(<<"0">> \o s, n)

\* str(f) of a non-negative Python float in positional notation
FloatToText(f) ==
    LET m == f[1]
        e == f[2]
    IN  IF e = 0 THEN NatToText(m) \o <<".", "0">>
        ELSE NatToText(m \div Pow10(e)) \o <<".">> \o PadLeft(NatToText(m % Pow10(e)), e)

T_True == <<"T", "r", "u", "e">>
T_False == <<"F", "a", "l", "s", "e">>

\* str(x) of a leaf object
PyStrOf(x) ==
    CASE x.kind = "bool" -> IF x.v.b THEN T_True ELSE T_False
      [] x.kind = "int" -> IntToText(x.v.n)
      [] x.kind = "float" -> FloatToText(x.v.f)
      [] x.kind = "str" -> x.v.s
      [] x.kind = "NoneType" -> <<"N", "o", "n", "e">>
      [] OTHER -> <<"<", x.kind, ">">>

(***************************************************************************)
(* GVariant type strings (GlVariant docstring, src/gimodel.py).            *)
(***************************************************************************)
base_type_sig == <<"b", "y", "n", "q", "i", "u", "x", "t", "d", "s", "o", "g">>

composite_type_sig == <<"m", "a", "v", "@", "(", "{">>

IntRanges ==
    [y |-> <<0, ByteMax>>, n |-> <<0 - Int16Max - 1, Int16Max>>,
     q |-> <<0, UInt16Max>>, i |-> <<0 - Int32Max - 1, Int32Max>>,
     h |-> <<0 - Int32Max - 1, Int32Max>>]

\* the length of the one complete type that starts at position i of s
RECURSIVE TypeLen(_, _)
RECURSIVE TupleLen(_, _)
TypeLen(s, i) ==
    CASE s[i] \in {"a", "m"} -> 1 + TypeLen(s, i + 1)
      [] s[i] = "(" -> 1 + TupleLen(s, i + 1)
      [] s[i] = "{" -> 1 + TypeLen(s, i + 1)
                         + TypeLen(s, i + 1 + TypeLen(s, i + 1)) + 1
      [] OTHER -> 1

\* the length of the rest of a tuple type from position i to its ")"
TupleLen(s, i) ==
    IF s[i] = ")" THEN 1 ELSE TypeLen(s, i) + TupleLen(s, i + TypeLen(s, i))

\* variant_type_from_string(s).dup_string(): the first complete type of s
FirstType(s) == SubSeq(s, 1, TypeLen(s, 1))

(***************************************************************************)
(* GLib.Variant values: ts is get_type_string(), ch the children           *)
(* (get_child_value), val the payload record of a basic type.             *)
(***************************************************************************)
GLeaf(t, x) == [ch |-> <<>>, ts |-> <<t>>, val |-> x]
GBox(ts, ch) == [ch |-> ch, ts |-> ts, val |-> NoVal]

\* GLib.Variant.new_variant(g)
GVar(g) == GBox(<<"v">>, <<g>>)

\* GLib.Variant.new_maybe(child_type, None): the absent value of the maybe
\* type whose ELEMENT type is child_type
new_maybe_nothing(child_type) == GBox(<<"m">> \o child_type, <<>>)

is_basic(g) == Len(g.ts) = 1 /\ CharIn(g.ts[1], base_type_sig)

\* Variant.unpack() of PyGObject: the native Python object, variants
\* unboxed transparently; NotImplementedError for a type it has no branch
\* for, which is a dict entry that is not the child of an array
RECURSIVE Unpack(_)
RECURSIVE UnpackAll(_)
RECURSIVE UnpackDict(_, _)
Unpack(g) ==
    LET made(xs, F(_)) ==
            Then(xs, LAMBDA r : IF r.exc # "" THEN r ELSE Ok(F(r.res)))
    IN  CASE is_basic(g) \/ g.ts = <<"h">> ->
                (CASE g.ts[1] = "b" -> Ok(PyBool(g.val.b))
                   [] g.ts[1] = "d" -> Ok(PyFloatV(g.val.f))
                   [] g.ts[1] \in {"s", "o", "g"} -> Ok(PyStr(g.val.s))
                   [] OTHER -> Ok(PyIntV(g.val.n)))
          [] g.ts[1] = "(" -> made(UnpackAll(g.ch), PyTuple)
          [] StartsWith(g.ts, <<"a", "{">>) -> made(UnpackDict(g.ch, <<>>), PyDict)
          [] g.ts[1] = "a" -> made(UnpackAll(g.ch), PyList)
          [] g.ts[1] = "v" -> Unpack(g.ch[1])
          [] g.ts[1] = "m" -> IF g.ch = <<>> THEN Ok(PyNone) ELSE Unpack(g.ch[1])
          [] OTHER -> Raise("NotImplementedError")

\* the children unpacked one after another
UnpackAll(gs) ==
    IF gs = <<>> THEN Ok(<<>>)
    ELSE Then(Unpack(Head(gs)),
              LAMBDA first :
                  IF first.exc # "" THEN first
                  ELSE Then(UnpackAll(Tail(gs)),
                            LAMBDA rest : IF rest.exc # "" THEN rest
                                          ELSE Ok(<<first.res>> \o rest.res)))

\* res[key.unpack()] = value.unpack() for every entry of a dictionary
UnpackDict(entries, acc) ==
    IF entries = <<>> THEN Ok(acc)
    ELSE Then(Unpack(Head(entries).ch[1]),
              LAMBDA key :
                  IF key.exc # "" THEN key
                  ELSE Then(Unpack(Head(entries).ch[2]),
                            LAMBDA val :
                                IF val.exc # "" THEN val
                                ELSE UnpackDict(Tail(entries),
                                                DictSet(acc, key.res, val.res))))

\* bool(x), as PyGObject takes a gboolean argument.  Variant.__bool__ tests
\* a number against 0, a string against '', an array or tuple for children,
\* and any other variant (a 'v', a maybe, a dict entry) through unpack()
RECURSIVE PyTruth(_)
PyTruth(x) ==
    CASE x.kind = "bool" -> Ok(x.v.b)
      [] x.kind = "int" -> Ok(x.v.n # 0)
      [] x.kind = "float" -> Ok(x.v.f[1] # 0)
      [] x.kind = "str" -> Ok(x.v.s # <<>>)
      [] x.kind = "NoneType" -> Ok(FALSE)
      [] x.kind = "Variant" ->
            (CASE GV(x).ts = <<"b">> -> Ok(GV(x).val.b)
               [] GV(x).ts = <<"d">> -> Ok(GV(x).val.f[1] # 0)
               [] Len(GV(x).ts) = 1 /\ GV(x).ts[1] \in {"s", "o", "g"} ->
                    Ok(GV(x).val.s # <<>>)
               [] Len(GV(x).ts) = 1
                  /\ GV(x).ts[1] \in {"y", "n", "q", "i", "u", "x", "t", "h"} ->
                    Ok(GV(x).val.n # 0)
               [] GV(x).ts[1] \in {"a", "("} -> Ok(GV(x).ch # <<>>)
               [] OTHER -> Then(Unpack(GV(x)),
                                LAMBDA u : IF u.exc # "" THEN u ELSE PyTruth(u.res)))
      [] OTHER -> Ok(x.items # <<>>)

\* int(x) of a float: the digits before the point
Truncated(f) ==
    IF f[1] >= 0 THEN f[1] \div Pow10(f[2]) ELSE 0 - ((0 - f[1]) \div Pow10(f[2]))

\* the value of an integer type t, or OverflowError outside the type's range
\* (the values of the model lie inside the ranges of 'u', 'x' and 't' unless
\* they are negative)
IntLeaf(t, n) ==
    IF \/ t \in DOMAIN IntRanges /\ (n < IntRanges[t][1] \/ n > IntRanges[t][2])
       \/ t \in {"u", "t"} /\ n < 0
    THEN Raise("OverflowError")
    ELSE Ok(GLeaf(t, VN(n)))

\* the characters of an element of an object path
PathChars ==
    { "A", "B", "C", "D", "E", "F", "G", "H", "I", "J", "K", "L", "M",
      "N", "O", "P", "Q", "R", "S", "T", "U", "V", "W", "X", "Y", "Z",
      "a", "b", "c", "d", "e", "f", "g", "h", "i", "j", "k", "l", "m",
      "n", "o", "p", "q", "r", "s", "t", "u", "v", "w", "x", "y", "z",
      "0", "1", "2", "3", "4", "5", "6", "7", "8", "9", "_" }

\* g_variant_is_object_path(s): "/" followed by elements of PathChars that
\* single "/" separate, no "/" at the end unless the path is "/"
is_object_path(s) ==
    /\ s # <<>> /\ s[1] = "/"
    /\ \A i \in 2..Len(s) :
           \/ s[i] \in PathChars
           \/ s[i] = "/" /\ s[i - 1] # "/" /\ i < Len(s)

\* the characters of the definite types, which a signature is made of
SignatureChars ==
    { "y", "b", "n", "q", "i", "u", "x", "t", "h", "d", "v", "a", "s", "o", "g",
      "(", ")", "{", "}" }

\* g_variant_type_string_scan from position i of s: the position after the
\* one complete type that starts there, 0 when none does
RECURSIVE type_string_scan(_, _)
RECURSIVE tuple_scan(_, _)
type_string_scan(s, i) ==
    IF i > Len(s) THEN 0
    ELSE CASE CharIn(s[i], base_type_sig) \/ s[i] \in {"h", "v", "r", "*", "?"} -> i + 1
           [] s[i] \in {"a", "m"} -> type_string_scan(s, i + 1)
           [] s[i] = "(" -> tuple_scan(s, i + 1)
           [] s[i] = "{" ->
                IF i + 1 > Len(s)
                   \/ ~(CharIn(s[i + 1], base_type_sig) \/ s[i + 1] \in {"h", "?"})
                THEN 0
                ELSE LET close == type_string_scan(s, i + 2)
                     IN  IF close # 0 /\ close <= Len(s) /\ s[close] = "}"
                         THEN close + 1 ELSE 0
           [] OTHER -> 0

\* the item types of a tuple from position i up to its ")"
tuple_scan(s, i) ==
    IF i > Len(s) THEN 0
    ELSE IF s[i] = ")" THEN i + 1
    ELSE LET after_item == type_string_scan(s, i)
         IN  IF after_item = 0 THEN 0 ELSE tuple_scan(s, after_item)

\* the complete types of s from position i on, one after another
RECURSIVE types_from(_, _)
types_from(s, i) ==
    IF i > Len(s) THEN TRUE
    ELSE LET after_type == type_string_scan(s, i)
         IN  after_type # 0 /\ types_from(s, after_type)

\* g_variant_is_signature(s): definite types only, each of them well formed
is_signature(s) ==
    /\ \A i \in 1..Len(s) : s[i] \in SignatureChars
    /\ types_from(s, 1)

\* _VariantCreator._LEAF_CONSTRUCTORS[t](value): GLib.Variant.new_boolean,
\* new_byte, new_int32, new_double, new_string, new_object_path,
\* new_signature, new_variant; GLib returns NULL, and PyGObject raises
\* TypeError, for a string that is no object path or no signature
LeafConstruct(t, value) ==
    CASE t = "b" ->
            Then(PyTruth(value),
                 LAMBDA truth : IF truth.exc # "" THEN truth
                                ELSE Ok(GLeaf("b", VB(truth.res))))
      [] t = "v" ->
            IF value.kind = "Variant" THEN Ok(GVar(GV(value))) ELSE Raise("TypeError")
      [] t \in {"s", "o", "g"} ->
            IF value.kind = "str"
               /\ (t = "o" => is_object_path(value.v.s))
               /\ (t = "g" => is_signature(value.v.s))
            THEN Ok(GLeaf(t, value.v)) ELSE Raise("TypeError")
      [] t = "d" ->
            (CASE value.kind = "float" -> Ok(GLeaf("d", value.v))
               [] value.kind = "int" -> Ok(GLeaf("d", VF(<<value.v.n, 0>>)))
               [] value.kind = "bool" ->
                    Ok(GLeaf("d", VF(<<IF value.v.b THEN 1 ELSE 0, 0>>)))
               [] OTHER -> Raise("TypeError"))
      [] OTHER ->
            (CASE value.kind = "int" -> IntLeaf(t, value.v.n)
               [] value.kind = "bool" -> IntLeaf(t, IF value.v.b THEN 1 ELSE 0)
               [] value.kind = "float" -> IntLeaf(t, Truncated(value.v.f))
               [] OTHER -> Raise("TypeError"))

\* iterating a Python object: the elements a for loop sees, or the exception
\* it raises.  A GLib.Variant is iterated through __getitem__(0), (1), ...
PyIter(value) ==
    CASE value.kind \in {"list", "tuple"} -> Ok(value.items)
      [] value.kind = "dict" ->
            Ok([i \in 1..Len(value.items) |-> value.items[i].key])
      [] value.kind = "str" ->
            Ok([i \in 1..Len(value.v.s) |-> PyStr(<<value.v.s[i]>>)])
      [] value.kind = "Variant" ->
            (CASE StartsWith(GV(value).ts, <<"a", "{">>) -> Raise("KeyError")
               [] GV(value).ts[1] \in {"a", "("} -> UnpackAll(GV(value).ch)
               [] is_basic(GV(value)) /\ GV(value).ts[1] \in {"s", "o", "g"} ->
                    Ok([i \in 1..Len(GV(value).val.s) |-> PyStr(<<GV(value).val.s[i]>>)])
               [] OTHER -> Raise("TypeError"))
      [] OTHER -> Raise("TypeError")

\* len(value)
PyLen(value) ==
    CASE value.kind \in {"list", "tuple", "dict"} -> Ok(Len(value.items))
      [] value.kind = "str" -> Ok(Len(value.v.s))
      [] value.kind = "Variant" ->
            (CASE GV(value).ts[1] \in {"a", "("} -> Ok(Len(GV(value).ch))
               [] is_basic(GV(value)) /\ GV(value).ts[1] \in {"s", "o", "g"} ->
                    Ok(Len(GV(value).val.s))
               [] OTHER -> Raise("TypeError"))
      [] OTHER -> Raise("TypeError")

\* the number of item types between the brackets of a tuple or dict entry
\* type (GLib.VariantType.n_items; 2 for a dict entry)
RECURSIVE CountTypes(_)
CountTypes(s) ==
    IF s[1] \in {")", "}"} THEN 0
    ELSE 1 + CountTypes(SubSeq(s, TypeLen(s, 1) + 1, Len(s)))

n_items(format) == CountTypes(Tail(format))

\* dict.items() as 2-tuples
DictItems(value) ==
    [i \in 1..Len(value.items) |-> PyTuple(<<value.items[i].key, value.items[i].val>>)]

\* the None that builder.end() returns where GLib refuses to end the builder
GNull == GBox(<<>>, <<>>)

\* builder.add_value(v): None is no argument for it
add_value(v) ==
    Then(v, LAMBDA r : IF r.exc = "" /\ r.res = GNull THEN Raise("TypeError") ELSE r)

\* _VariantCreator._create(format, value) of PyGObject, which
\* GLib.Variant(format, value) and so GlVariant(format, value) run; for the
\* value None the builder is ended as it is, which GLib refuses for a tuple
\* or dict entry that lacks its items
RECURSIVE Create(_, _)
RECURSIVE CreateArray(_, _, _)
RECURSIVE CreateItems(_, _, _)
Create(format, value) ==
    IF Len(format) = 1 /\ (CharIn(format[1], base_type_sig) \/ format[1] \in {"v", "h"})
    THEN LeafConstruct(format[1], value)
    ELSE IF value.kind = "NoneType"
    THEN (IF format[1] \in {"(", "{"} /\ n_items(format) > 0
          THEN Ok(GNull)
          ELSE Ok(GBox(format, <<>>)))
    ELSE IF format[1] = "m"
    THEN Then(add_value(Create(Tail(format), value)),
              LAMBDA inner : IF inner.exc # "" THEN inner
                             ELSE Ok(GBox(format, <<inner.res>>)))
    ELSE IF value.kind \in {"bool", "int", "float"} THEN Raise("TypeError")
    ELSE IF format[1] \in {"(", "{"}
            /\ PyLen(value) # Ok(n_items(format))
    THEN Raise("TypeError")
    ELSE Then(IF format[1] = "a" /\ value.kind = "dict"
              THEN Ok(DictItems(value)) ELSE PyIter(value),
              LAMBDA it :
                  IF it.exc # "" THEN it
                  ELSE IF format[1] = "a"
                  THEN CreateArray(format, Tail(format), it.res)
                  ELSE CreateItems(format, Tail(format), it.res))

\* a container of the first element c and the container r of the rest
Cons(format, c, r) ==
    Then(c, LAMBDA first :
                IF first.exc # "" THEN first
                ELSE Then(r, LAMBDA rest :
                                 IF rest.exc # "" THEN rest
                                 ELSE Ok(GBox(format, <<first.res>> \o rest.res.ch))))

\* the array branch: every element against the element type
CreateArray(format, element_type, xs) ==
    IF xs = <<>> THEN Ok(GBox(format, <<>>))
    ELSE Cons(format, add_value(Create(element_type, Head(xs))),
              CreateArray(format, element_type, Tail(xs)))

\* the tuple and dict entry branch: every element against the next type of
\* the remaining format
CreateItems(format, remainer_format, xs) ==
    IF xs = <<>> THEN Ok(GBox(format, <<>>))
    ELSE Cons(format, add_value(Create(FirstType(remainer_format), Head(xs))),
              CreateItems(format,
                          SubSeq(remainer_format, TypeLen(remainer_format, 1) + 1,
                                 Len(remainer_format)),
                          Tail(xs)))

(***************************************************************************)
(* The schema sources and the settings store the program reads (Gio).      *)
(* A schema id, a key name and a path are Python strings.                  *)
(***************************************************************************)
T_org == <<"o", "r", "g">>
K0 == <<"k", "0">>
K1 == <<"k", "1">>
K2 == <<"k", "2">>
K3 == <<"k", "3">>
PathA == <<"/", "a", "/">>
PathB == <<"/", "b", "/">>
Loc == <<"/", "l", "/">>
BadPath == <<"/", "x", "/">>
NoPath == <<>>
\* the Python None where a path string is expected
LocNone == <<"None">>

\* ".".join(parts)
RECURSIVE Join(_)
Join(parts) ==
    IF Len(parts) = 1 THEN parts[1] ELSE parts[1] \o <<".">> \o Join(Tail(parts))

IdA == <<T_org, <<"a">>>>
IdB == <<T_org, <<"b">>>>
IdR == <<T_org, <<"r">>>>
IdD == <<T_org, <<"d">>>>
\* schemas whose id extends the id of another schema
IdRS == <<T_org, <<"r">>, <<"s">>>>
IdDX == <<T_org, <<"d">>, <<"x">>>>

\* the compiled schemas: split id, the path a non-relocatable schema
\* declares, and its keys as the schema declares them
Schemas ==
    <<[id |-> IdA, path |-> PathA, keys |-> <<K0, K1>>],
      [id |-> IdB, path |-> PathB, keys |-> <<K2>>],
      [id |-> IdR, path |-> NoPath, keys |-> <<K3>>],
      [id |-> IdD, path |-> Loc, keys |-> <<>>],
      [id |-> IdRS, path |-> NoPath, keys |-> <<>>],
      [id |-> IdDX, path |-> Loc, keys |-> <<>>]>>

SchemaOf(id) == CHOOSE sc \in {Schemas[i] : i \in 1..Len(Schemas)} : sc.id = id

\* Gio.SettingsSchemaSource.get_default() and the source compiled in the
\* directory Loc: list_schemas(False) as (installed, relocatable)
DefaultSource == [installed |-> <<IdA, IdB>>, relocatable |-> <<IdR>>]
DirSource == [installed |-> <<IdD, IdA>>, relocatable |-> <<IdR>>]
NoSource == [installed |-> <<>>, relocatable |-> <<>>]

InSeq(x, xs) == \E i \in 1..Len(xs) : xs[i] = x

\* source.lookup(schema_id, False)
Lookup(source, id) == InSeq(id, source.installed) \/ InSeq(id, source.relocatable)

KeyNames == {K0, K1, K2, K3}

\* a key's declared range: schema_key.get_range().unpack()
NoRange == [t |-> "type", lo |-> 0, hi |-> 0]
KeyRange(name) ==
    IF name = K0 THEN [t |-> "range", lo |-> 0, hi |-> 9] ELSE NoRange

(***************************************************************************)
(* The values the key under test, k1, is given: every kind of signature,   *)
(* nested.                                                                 *)
(***************************************************************************)
T_ab == <<"a", "b">>
KA == <<"k", "a">>
KB == <<"k", "b">>

GI(n) == GLeaf("i", VN(n))
GS(t) == GLeaf("s", VS(t))
GB(b) == GLeaf("b", VB(b))
GY(n) == GLeaf("y", VN(n))
GD(f) == GLeaf("d", VF(f))

RECURSIVE ConcatTypes(_)
ConcatTypes(gs) == IF gs = <<>> THEN <<>> ELSE Head(gs).ts \o ConcatTypes(Tail(gs))

GTuple(gs) == GBox(<<"(">> \o ConcatTypes(gs) \o <<")">>, gs)
GEntry(k, g) == GBox(<<"{">> \o k.ts \o g.ts \o <<"}">>, <<k, g>>)
GArr(elem, gs) == GBox(<<"a">> \o elem, gs)
GJust(g) == GBox(<<"m">> \o g.ts, <<g>>)
GNothing(elem) == GBox(<<"m">> \o elem, <<>>)

SI == <<"{", "s", "i", "}">>
SV == <<"{", "s", "v", "}">>

LeafValues ==
    { GI(5), GS(T_ab), GB(TRUE), GY(7), GD(<<15, 1>>) }

PlainValues ==
    { GArr(<<"i">>, <<GI(1), GI(2)>>),
      GArr(<<"i">>, <<>>),
      GArr(<<"s">>, <<GS(T_ab)>>),
      GTuple(<<GI(5), GS(T_ab)>>),
      GTuple(<<>>),
      GArr(<<"(", "i", "i", ")">>, <<GTuple(<<GI(1), GI(2)>>)>>),
      GArr(SI, <<GEntry(GS(KA), GI(1)), GEntry(GS(KB), GI(2))>>),
      GArr(SI, <<>>),
      GArr(SI, <<GEntry(GS(KA), GI(1)), GEntry(GS(KA), GI(2))>>) }

VariantValues ==
    { GArr(SV, <<GEntry(GS(KA), GVar(GI(5)))>>),
      GArr(SV, <<GEntry(GS(KA), GVar(GArr(<<"i">>, <<GI(1), GI(2)>>)))>>),
      GArr(SV, <<GEntry(GS(KA), GVar(GS(T_ab))),
                 GEntry(GS(KB), GVar(GTuple(<<GI(1), GVar(GI(2))>>)))>>),
      GArr(SV, <<GEntry(GS(KA), GVar(GArr(SI, <<GEntry(GS(KB), GI(1))>>)))>>),
      GArr(<<"v">>, <<GVar(GI(5)), GVar(GS(T_ab))>>),
      GArr(<<"v">>, <<GVar(GArr(<<"i">>, <<GI(1)>>))>>),
      GTuple(<<GTuple(<<GI(1), GVar(GI(42))>>), GS(T_ab)>>),
      GTuple(<<GVar(GVar(GArr(<<"i">>, <<GI(1)>>))), GI(5)>>),
      GVar(GI(5)),
      GVar(GArr(<<"i">>, <<GI(1), GI(2)>>)),
      GVar(GVar(GI(5))),
      GVar(GArr(SI, <<GEntry(GS(KA), GI(1))>>)) }

MaybeValues ==
    { GNothing(<<"i">>),
      GJust(GI(5)),
      GJust(GArr(<<"i">>, <<GI(1)>>)),
      GTuple(<<GNothing(<<"i">>), GI(5)>>),
      GTuple(<<GJust(GI(3)), GI(5)>>),
      GTuple(<<GNothing(<<"b">>), GI(5)>>),
      GArr(<<"m", "s">>, <<GJust(GS(T_ab)), GNothing(<<"s">>)>>),
      GJust(GVar(GI(5))),
      GArr(SV, <<GEntry(GS(KA), GVar(GNothing(<<"i">>)))>>) }

ValueSet == LeafValues \cup PlainValues \cup VariantValues \cup MaybeValues

(***************************************************************************)
(* The program state.                                                      *)
(***************************************************************************)
VARIABLES
    store,          \* the settings store: key name -> GLib.Variant
    writable,       \* whether the store's backend accepts writes
    faulty,         \* the keys whose registration raises while decomposing
    initial,        \* the value k1 was given, which is also its default
    tree,           \* the ttk.Treeview: item number -> [iid, parent, text, values]
    gi_dict,        \* GSettingsViewer.gi_dict: item number -> GiSchema/GiKey/GiValue
    focus,          \* tree.focus(): an item number, 0 for none
    selected,       \* tree.selection() is the focused item; else it is empty
    selects,        \* the <<TreeviewSelect>> events Tk has queued for the tree
    status_bar,     \* the status bar's condition after the last load
    schema_source,  \* GSettingsViewer.schema_source
    schema_type,    \* the schema type selector
    path_entry,     \* the text of the path entry
    location,       \* GSettingsViewer.location
    editors,        \* the GSettingsEditor frames on the screen, the last on top
    last,           \* what the last editor handler did
    accepts,        \* the accept_change calls and direct setter calls made
    crashed,        \* GLib aborted the process (g_error)
    search_results, \* GSettingsViewer.search_results: the items found
    compiled,       \* the compiled schemas of the system and of the directory Loc
    current_index,  \* SearchResults.current_index of search_results
    search_box,     \* the text of the search box
    timers,         \* the pending after() timers: [id, due]
    after_id,       \* GSettingsViewer.after_id: the id of the last timer, 0 at start
    quiet,          \* the time since the last key release that scheduled a search
    result_ids      \* the item ids search_results holds, "" for a generated id

vars ==
    <<store, writable, faulty, initial, tree, gi_dict, focus, selected, selects,
      status_bar, schema_source, schema_type, path_entry, location, editors, last,
      accepts, crashed, search_results, compiled, current_index, search_box, timers,
      after_id, quiet, result_ids>>

\* the value a key has when the program starts, which is also the default
\* its schema declares
KeyDefault(name) ==
    CASE name = K0 -> GI(5)
      [] name = K1 -> initial
      [] name = K2 -> GB(TRUE)
      [] OTHER -> GD(<<15, 1>>)

(***************************************************************************)
(* ttk.Treeview.                                                           *)
(***************************************************************************)
\* tree.get_children(item): the items inserted under item, in order
RECURSIVE ChildrenFrom(_, _, _)
ChildrenFrom(tr, item, i) ==
    IF i > Len(tr) THEN <<>>
    ELSE IF tr[i].parent = item THEN <<i>> \o ChildrenFrom(tr, item, i + 1)
    ELSE ChildrenFrom(tr, item, i + 1)

get_children(tr, item) == ChildrenFrom(tr, item, 1)

\* tree.exists(iid)
TreeExists(tr, iid) == \E i \in 1..Len(tr) : tr[i].iid = iid

ItemOf(tr, iid) == CHOOSE i \in 1..Len(tr) : tr[i].iid = iid

\* the Tcl list a string passed as values= is split into (the texts of the
\* model hold no white space, brace, quote or backslash)
TclList(text) == IF text = <<>> THEN <<>> ELSE <<text>>

(***************************************************************************)
(* gimodel: GiSchema, GiKey, GiValue, GiDict.                              *)
(***************************************************************************)
NoMeta == [schema_name |-> <<>>, key_name |-> <<>>, key_type |-> <<>>,
           default_value |-> PyNone, range |-> NoRange]

NoData ==
    [cls |-> "none", name |-> <<>>, key_id |-> 0, value |-> PyNone, vtype |-> <<>>,
     variant |-> FALSE, compound |-> FALSE, meta |-> NoMeta]

\* GiSchema.factory(schema_name)
GiSchema(name) == [NoData EXCEPT !.cls = "GiSchema", !.name = name]

\* GiKey.factory(schema, key_name, key_id): the metadata of the schema key;
\* a falsy default is not stored
GiKey_factory(schema_id, key_name, key_type, default) ==
    Then(Unpack(default),
         LAMBDA default_value :
             IF default_value.exc # "" THEN default_value
             ELSE Ok([schema_name |-> Join(schema_id), key_name |-> key_name,
                      key_type |-> key_type,
                      default_value |-> IF PyTruth(default_value.res).res
                                        THEN default_value.res ELSE PyNone,
                      range |-> KeyRange(key_name)]))

\* GiValue.factory(key, value, type): compound unless the type string is a
\* substring of base_type_sig
GiValue_compound(type) == ~IsSubstring(type, base_type_sig)

\* GiDict.add_gidata(id, key_id, schema, name, data, variant): registers the
\* item; the key's root item (key_id None, here 0) holds the GiKey, whose
\* value is the root's GiValue, every other item a GiValue of that key.  A
\* compound item holds no leaf value.
add_gidata(st, id, key_id, schema_id, name, data, variant) ==
    IF st.exc # "" THEN st
    ELSE IF key_id = 0 /\ name \in faulty THEN [st EXCEPT !.exc = "Exception"]
    ELSE LET isleaf == CharIn(data.ts[1], base_type_sig)
             entry(gi_key) ==
                 [cls |-> IF key_id = 0 THEN "GiKey" ELSE "GiValue",
                  name |-> name,
                  key_id |-> IF key_id = 0 THEN id ELSE key_id,
                  value |-> IF isleaf THEN Unpack(data).res ELSE PyNone,
                  vtype |-> data.ts,
                  variant |-> variant,
                  compound |-> GiValue_compound(data.ts),
                  meta |-> gi_key.res]
         IN  Then(IF key_id = 0
                  THEN GiKey_factory(schema_id, name, data.ts, KeyDefault(name))
                  ELSE Ok(NoMeta),
                  LAMBDA gi_key :
                      IF gi_key.exc # "" THEN [st EXCEPT !.exc = gi_key.exc]
                      ELSE [st EXCEPT !.gi_dict[id] = entry(gi_key)])

\* GiDict.get_keyvalue(id): the (key, value) pair of an item, or TypeError
has_keyvalue(gd, id) == id \in 1..Len(gd) /\ gd[id].cls \in {"GiKey", "GiValue"}

(***************************************************************************)
(* GSettingsViewer: building the tree.                                     *)
(***************************************************************************)
\* tree.insert(parent, "end", iid, text=, values=) on the state st; the new
\* item is st.current
tree_insert(st, parent, iid, text, values) ==
    [st EXCEPT !.tree = Append(@, [iid |-> iid, parent |-> parent, text |-> text,
                                   values |-> values]),
               !.gi_dict = Append(@, NoData),
               !.current = Len(st.tree) + 1]

\* GSettingsViewer.insert(parent, key, val, type): values=(str(val),)
insert(st, parent, key, val) ==
    IF st.exc # "" THEN st ELSE tree_insert(st, parent, <<>>, key, <<val>>)

\* is_variant = tv in "v@"
tv_is_variant(tv) == IsSubstring(tv, <<"v", "@">>)

\* GSettingsViewer.parse_key(parent, key_id, name, data, schema, variant):
\* key_id 0 is None, the key's own root
\* a nested variant that gets a node of its own
inserts_every_node(tv, key_id) == TRUE

\* lines 356-366: a base type gets a node, a compound gets one unless it is a
\* variant below the key's root
inserts_node(tv, key_id) ==
    \/ CharIn(tv[1], base_type_sig)
    \/ ~tv_is_variant(tv)
    \/ (tv_is_variant(tv) /\ key_id = 0)

\* line 375: the children of an 'a' value are dictionary entries
parses_dict(tv) == StartsWith(tv, <<"a", "{">>)

RECURSIVE parse_key(_, _, _, _, _, _, _)
RECURSIVE parse_children(_, _, _, _, _, _, _, _)
parse_key(st, parent, key_id, name, data, schema_id, variant) ==
    IF st.exc # "" THEN st
    ELSE
    LET tv == data.ts
        is_variant == tv_is_variant(tv)
        isleaf == CharIn(tv[1], base_type_sig)
        registered(a) == add_gidata(a, a.current, key_id, schema_id, name, data, variant)
        \* lines 373-397: the children
        mode == CASE tv[1] \in {"a", "(", "["} ->
                        IF parses_dict(tv) THEN "dict" ELSE "list"
                  [] is_variant -> "variant"
                  [] tv[1] = "m" -> "maybe"
                  [] OTHER -> "none"
        descend(st1) ==
            IF mode = "none" THEN st1
            ELSE Then(parse_children(st1, st1.current,
                                     IF key_id = 0 THEN st1.current ELSE key_id,
                                     name, data, schema_id, mode, 1),
                      LAMBDA st2 : IF st2.exc # "" THEN st2
                                   ELSE [st2 EXCEPT !.current = st1.current])
    IN  \* lines 356-369: the item of this value
        Then(IF isleaf
             THEN Then(insert(st, parent, name, PyStrOf(Unpack(data).res)), registered)
             ELSE IF inserts_node(tv, key_id)
             THEN Then(insert(st, parent, name, tv), registered)
             ELSE [st EXCEPT !.current = parent],
             descend)

\* the loops over data.get_child_value(i), from child i on
parse_children(st, current, root_key, name, data, schema_id, mode, i) ==
    IF st.exc # "" \/ i > Len(data.ch) THEN st
    ELSE Then(
            CASE mode = "dict" ->
                    parse_key(st, current, root_key, Unpack(data.ch[i].ch[1]).res.v.s,
                              data.ch[i].ch[2], schema_id, FALSE)
              [] mode = "variant" ->
                    parse_key(st, current, root_key, name, data.ch[i], schema_id, TRUE)
              [] OTHER ->
                    parse_key(st, current, root_key, NatToText(i - 1), data.ch[i],
                              schema_id, FALSE),
            LAMBDA nxt : parse_children(nxt, current, root_key, name, data,
                                        schema_id, mode, i + 1))

\* the state load_schemas works on: the tree and gi_dict being built, the
\* local variable node (0 while unbound) and the exception raised, if any
EmptyLoad ==
    [tree |-> <<>>, gi_dict |-> <<>>, current |-> 0, node |-> 0, exc |-> "",
     status |-> "source"]

\* lines 298-303: one tree item for every dotted prefix of the schema id
\* that has none yet; parent is the item of the previous prefix
RECURSIVE build_prefixes(_, _, _, _)
build_prefixes(st, split_id, i, parent) ==
    IF i > Len(split_id) THEN [st EXCEPT !.current = parent]
    ELSE LET node_id == Join(SubSeq(split_id, 1, i))
             registered(a) == [a EXCEPT !.gi_dict[a.current] = GiSchema(node_id),
                                        !.node = a.current]
         IN  IF ~TreeExists(st.tree, node_id)
             THEN Then(Then(tree_insert(st, parent, node_id, split_id[i], <<>>),
                            registered),
                       LAMBDA a : build_prefixes(a, split_id, i + 1, a.current))
             ELSE build_prefixes(st, split_id, i + 1, ItemOf(st.tree, node_id))

\* self.tree.item(node, values=(marker,)) with the local variable node
mark_node(st, marker) ==
    IF st.node = 0 THEN [st EXCEPT !.exc = "UnboundLocalError"]
    ELSE [st EXCEPT !.tree[st.node].values = <<marker>>]

\* lines 336-339: the keys of one schema
RECURSIVE parse_keys(_, _, _, _, _)
parse_keys(st, parent, schema_id, keys, k) ==
    IF st.exc # "" \/ k > Len(keys) THEN st
    ELSE Then(parse_key(st, parent, 0, keys[k], store[keys[k]], schema_id, FALSE),
              LAMBDA nxt : parse_keys(nxt, parent, schema_id, keys, k + 1))

T_Relocatable == <<"R", "e", "l", "o", "c", "a", "t", "a", "b", "l", "e">>
T_NotInstalled == <<"N", "o", "t", " ", "i", "n", "s", "t", "a", "l", "l", "e", "d">>
T_WrongLocation == <<"W", "r", "o", "n", "g", " ", "l", "o", "c", "a", "t", "i", "o", "n">>

\* schema.list_keys(): the keys of the schema, those of org.a in the order
\* this system lists them
list_keys(schema_id) ==
    IF schema_id = IdA THEN compiled.keys ELSE SchemaOf(schema_id).keys

\* lines 292-339: the loop over the listed schema ids, from the k-th on
RECURSIVE load_loop(_, _, _, _, _, _)
load_loop(st, source, stype, loc, schemas, k) ==
    IF st.exc # "" \/ k > Len(schemas) THEN st
    ELSE
    LET schema_id == schemas[k]
        schema == Lookup(source, schema_id)
        \* a.current is the item of the full schema id
        keys_of(a) ==
            IF stype = "Relocatable" /\ loc = NoPath THEN mark_node(a, T_Relocatable)
            ELSE IF ~schema THEN a
            ELSE IF ~Lookup(compiled.default, schema_id) THEN mark_node(a, T_NotInstalled)
            ELSE IF loc # NoPath /\ SchemaOf(schema_id).path # NoPath
                    /\ SchemaOf(schema_id).path # loc
            THEN mark_node(a, T_WrongLocation)
            ELSE parse_keys(a, a.current, schema_id, list_keys(schema_id), 1)
    IN  Then(Then(build_prefixes(st, schema_id, 1, 0), keys_of),
             LAMBDA nxt : load_loop(nxt, source, stype, loc, schemas, k + 1))

\* Gio.SettingsSchemaSource.new_from_directory(location, ...): only Loc
\* holds compiled schemas
DirectoryOk(loc) == loc = Loc

\* GSettingsViewer.load_schemas(schema_type, location); loc is LocNone for
\* None, or a path string (possibly empty)
load_schemas(stype, loc) ==
    LET isnone == loc = LocNone
        source == IF isnone THEN compiled.default ELSE compiled.dir
        schemas == IF stype = "Installed" THEN source.installed ELSE source.relocatable
        caught(r) == IF r.exc # "" THEN [r EXCEPT !.status = "error"] ELSE r
    IN  IF ~isnone /\ ~DirectoryOk(loc)
        THEN [EmptyLoad EXCEPT !.exc = "GLib.Error", !.status = "error"]
        ELSE IF schemas = <<>> THEN [EmptyLoad EXCEPT !.status = "No schemas found."]
        ELSE Then(load_loop(EmptyLoad, source, stype,
                            IF isnone THEN NoPath ELSE loc, schemas, 1),
                  caught)

(***************************************************************************)
(* GSettingsEditor: recomposition.                                         *)
(***************************************************************************)
\* GlVariant(vt_str, value): the GLib.Variant constructor, as a Python
\* object; Variant.__new__ sets format_string on what _create returned, and
\* None has no such attribute
AsObject(r) ==
    IF r.exc # "" THEN r
    ELSE IF r.res = GNull THEN Raise("AttributeError")
    ELSE Ok(PyVariant(r.res))

GlVariant(vt_str, value) == AsObject(Create(vt_str, value))

\* a test that takes an array of tuples for a dictionary as well
gathers_dict_or_tuples(vt_str) ==
    Len(vt_str) > 1 /\ vt_str[1] = "a" /\ vt_str[2] \in {"{", "("}

\* line 128: vt_str.startswith('a{')
gathers_dict(vt_str) == StartsWith(vt_str, <<"a", "{">>)

\* GSettingsEditor.gather_variant(tree, gi_dict, next, container)
RECURSIVE gather_variant(_, _, _, _)
RECURSIVE gather_dict(_, _, _, _)
RECURSIVE gather_list(_, _, _, _)
RECURSIVE gather_each(_, _, _)
gather_variant(tr, gd, next, container) ==
    IF ~has_keyvalue(gd, next) THEN Raise("TypeError")
    ELSE
    LET gi_value == gd[next]
        vt_str == gi_value.vtype
        detached(x) == IF container THEN Ok(x) ELSE GlVariant(vt_str, x)
        as_dict(d) == IF d.exc # "" THEN d ELSE detached(PyDict(d.res))
        as_list(l) == IF l.exc # "" THEN l ELSE detached(PyList(l.res))
        unbound(e) == IF e.exc # "" THEN e ELSE Raise("UnboundLocalError")
        \* lines 161-163
        returned(v) ==
            IF v.exc # "" THEN v
            ELSE IF gi_value.variant THEN GlVariant(vt_str, v.res)
            ELSE v
        branches(children) ==
            IF \E i \in 1..Len(children) : gd[children[i]].cls = "none"
            THEN Raise("KeyError")
            ELSE returned(
                CASE gathers_dict(vt_str) ->
                        as_dict(gather_dict(tr, gd, children, <<>>))
                  [] vt_str[1] \in {"a", "[", "("} ->
                        as_list(gather_list(tr, gd, children, <<>>))
                  [] vt_str[1] \in {"v", "@"} ->
                        IF children = <<>> THEN Raise("IndexError")
                        ELSE gather_variant(tr, gd, children[1], FALSE)
                  [] vt_str[1] = "m" ->
                        IF children = <<>>
                        THEN Ok(PyVariant(new_maybe_nothing(vt_str)))
                        ELSE unbound(gather_each(tr, gd, children))
                  [] OTHER ->
                        IF gi_value.cls # "GiValue" THEN Raise("TypeError")
                        ELSE detached(gi_value.value))
    IN  IF ~gi_value.compound THEN Ok(gi_value.value)
        ELSE branches(get_children(tr, next))

\* lines 129-133: the dict of the children, by item text
gather_dict(tr, gd, cs, acc) ==
    IF cs = <<>> THEN Ok(acc)
    ELSE LET put(val) ==
                 IF val.exc # "" THEN val
                 ELSE gather_dict(tr, gd, Tail(cs),
                                  DictSet(acc, PyStr(tr[Head(cs)].text), val.res))
         IN  put(gather_variant(tr, gd, Head(cs), TRUE))

\* lines 138-141: the list of the children, in order
gather_list(tr, gd, cs, acc) ==
    IF cs = <<>> THEN Ok(acc)
    ELSE LET append(val) ==
                 IF val.exc # "" THEN val
                 ELSE gather_list(tr, gd, Tail(cs), Append(acc, val.res))
         IN  append(gather_variant(tr, gd, Head(cs), TRUE))

\* lines 154-155: the children of a maybe are gathered and dropped
gather_each(tr, gd, cs) ==
    IF cs = <<>> THEN Ok(PyNone)
    ELSE LET drop(val) == IF val.exc # "" THEN val ELSE gather_each(tr, gd, Tail(cs))
         IN  drop(gather_variant(tr, gd, Head(cs), FALSE))

\* GlVariant.AssureVariant(vt_str, input)
AssureVariant(vt_str, input) ==
    IF input.kind = "Variant" THEN Ok(input) ELSE GlVariant(vt_str, input)

\* GSettingsEditor.rebuild_item(item_id): the GLib.Variant gathered from the
\* root item of the key that owns item_id
rebuild_item(tr, gd, item_id) ==
    IF ~has_keyvalue(gd, item_id) THEN Raise("TypeError")
    ELSE LET key_type == gd[gd[item_id].key_id].meta.key_type
             unboxed(a) == IF a.exc # "" THEN a ELSE Ok(GV(a.res))
             assured(data) ==
                 IF data.exc # "" THEN data
                 ELSE unboxed(AssureVariant(key_type, data.res))
         IN  assured(gather_variant(tr, gd, gd[item_id].key_id, FALSE))

(***************************************************************************)
(* gimodel.get_defaultvalue and GiValue.set_value.                         *)
(***************************************************************************)
\* the position of item among the children of its parent, from 0
SiblingIndex(tr, item) ==
    LET sibs == get_children(tr, tr[item].parent)
    IN  (CHOOSE i \in 1..Len(sibs) : sibs[i] = item) - 1

\* get_defaultvalue(tree, default_value, value): the element at the focused
\* item's sibling index when the default is a list or tuple and the value
\* is not compound
get_defaultvalue(tr, foc, default_value, gi_value) ==
    IF default_value.kind \in {"list", "tuple"} /\ ~gi_value.compound
    THEN LET index == SiblingIndex(tr, foc)
         IN  IF index + 1 > Len(default_value.items) THEN Raise("IndexError")
             ELSE Ok(default_value.items[index + 1])
    ELSE Ok(default_value)

\* GiValue.set_value(value): a str given to a 'b' value becomes the bool
\* value == 'True'; anything else is stored as it is
GiValue_set_value(gi_value, value) ==
    IF gi_value.vtype = <<"b">> /\ value.kind = "str"
    THEN [gi_value EXCEPT !.value = PyBool(value.v.s = T_True)]
    ELSE [gi_value EXCEPT !.value = value]

\* GiValue.set_variant(is_variant)
GiValue_set_variant(gi_value, is_variant) == [gi_value EXCEPT !.variant = is_variant]

\* GiValue.factory(key, value, type) for the key of the item gi_key
GiValue_factory(gi_key, value, type) ==
    [gi_key EXCEPT !.cls = "GiValue", !.value = value, !.vtype = type,
                   !.variant = FALSE, !.compound = GiValue_compound(type)]

\* GiKey.set_default_value(default_value), on the metadata of the key
GiKey_set_default_value(gi_key, default_value) ==
    [gi_key EXCEPT !.default_value = default_value]

\* GiKey.set_value(value): the item of the key holds the GiKey and, with it,
\* the GiValue the key gives out
GiKey_set_value(gi_key, gi_value) ==
    [gi_key EXCEPT !.value = gi_value.value, !.vtype = gi_value.vtype,
                   !.variant = gi_value.variant, !.compound = gi_value.compound]

(***************************************************************************)
(* The texts a user types.                                                 *)
(***************************************************************************)
TextSet ==
    { <<>>, <<"7">>, <<"1", "2">>, <<"3", "0", "0">>, <<"1", ".", "5">>,
      <<"a", "b">> }

\* the choices of the read-only Combobox of a bool value
BoolChoices == {T_True, T_False}

\* the strings a caller may hand to GiValue.set_value
SetValueTexts ==
    { T_True, T_False, <<"y", "e", "s">>, <<"t", "r", "u", "e">>, <<>> }

(***************************************************************************)
(* The settings store (Gio.Settings).                                      *)
(***************************************************************************)
\* the schema that declares a key
SchemaOfKey(name) ==
    CHOOSE sc \in {Schemas[i] : i \in 1..Len(Schemas)} : InSeq(name, sc.keys)

\* the schema with this dotted id
SchemaNamed(schema_name) ==
    CHOOSE sc \in {Schemas[i] : i \in 1..Len(Schemas)} : Join(sc.id) = schema_name

\* Gio.Settings.new(schema_name) / new_with_path(schema_name, location):
\* GLib aborts the process when a relocatable schema is given no path or a
\* schema with a path is given another one
SettingsAborts(schema_name, loc) ==
    LET sc == SchemaNamed(schema_name)
    IN  IF loc \in {LocNone, NoPath} THEN sc.path = NoPath
        ELSE sc.path # NoPath /\ sc.path # loc

\* settings.set_value(key_name, variant): FALSE when the variant is not of
\* the key's type, is outside the key's range or the key is not writable
SetValueAccepted(key_name, variant) ==
    /\ variant.ts = KeyDefault(key_name).ts
    /\ KeyRange(key_name).t = "range" =>
            (variant.val.n >= KeyRange(key_name).lo
             /\ variant.val.n <= KeyRange(key_name).hi)
    /\ writable

(***************************************************************************)
(* The initial state: GSettingsViewer.__init__ has loaded the installed    *)
(* schemas.                                                                *)
(***************************************************************************)
\* an editor on an item; shown and held keep, for the properties, the tree
\* and gi_dict as they were when the editor opened; item is 0, and gi_value
\* and gi_key are the objects of the editor, once a load has deleted the
\* item; obj then names the GiValue object, which the editors that were open
\* on the same item share
NoObject == [load |-> 0, item |-> 0]

EditorOn(item, combo, tr, gd) ==
    [item |-> item, combo |-> combo, message |-> "", shown |-> tr, held |-> gd,
     gi_value |-> NoData, gi_key |-> NoMeta, obj |-> NoObject, key_item |-> 0]

NoLast ==
    [op |-> "none", outcome |-> "", exc |-> "", item |-> 0, text |-> <<>>,
     calls |-> 0, accepted |-> FALSE, variant |-> Raise("none")]

\* the values of k1 in the runs with a read-only store
CoreValues ==
    { GI(5), GArr(<<"i">>, <<GI(1), GI(2)>>),
      GArr(SV, <<GEntry(GS(KA), GVar(GI(5)))>>) }

\* the state GSettingsViewer.__init__ leaves: k1 holds v, registering the
\* keys in f raises, the store is writable or not
StartIn(c, v, f, w) ==
    /\ compiled = c
    /\ initial = v
    /\ faulty = f
    /\ writable = w
    /\ store = [k \in KeyNames |-> KeyDefault(k)]
    /\ schema_source = c.default
    /\ schema_type = "Installed"
    /\ path_entry = NoPath
    /\ location = LocNone
    /\ \E r \in {load_schemas("Installed", LocNone)} :
           /\ tree = r.tree
           /\ gi_dict = r.gi_dict
           /\ status_bar = r.status
    /\ focus = 0
    /\ selected = FALSE
    /\ selects = 0
    /\ editors = <<>>
    /\ last = NoLast
    /\ accepts = 0
    /\ crashed = FALSE
    /\ search_results = <<>>
    /\ result_ids = <<>>
    /\ current_index = 0
    /\ search_box = <<>>
    /\ timers = {}
    /\ after_id = 0
    /\ quiet = 0

\* list_schemas and list_keys promise no order: the system that lists
\* schemas and keys in alphabetical order, and the one whose hash tables list
\* org.b before org.a and k1 before k0
Compiled == [default |-> DefaultSource, dir |-> DirSource, keys |-> <<K0, K1>>]
Hashed ==
    [default |-> [installed |-> <<IdB, IdA>>, relocatable |-> <<IdR>>],
     dir |-> DirSource, keys |-> <<K1, K0>>]
Systems == {Compiled, Hashed}
Start(v, f, w) == \E c \in Systems : StartIn(c, v, f, w)

\* the values of k1 in the runs that load and edit: those of CoreValues, a
\* tuple with an empty maybe and the empty tuple
EditedValues ==
    CoreValues \cup { GTuple(<<GNothing(<<"b">>), GI(5)>>), GTuple(<<>>) }

\* the starts of the editing sessions: on the system that lists in
\* alphabetical order, and with k1 an int on the other one
Init ==
    \/ \E v \in EditedValues : StartIn(Compiled, v, {}, TRUE)
    \/ StartIn(Hashed, GI(5), {}, TRUE)
    \/ \E v \in CoreValues : StartIn(Compiled, v, {}, FALSE)
    \/ \E k \in {K0, K1, K2} : StartIn(Compiled, GI(5), {k}, TRUE)

\* the start with k1 holding any value of ValueSet
InitValues ==
    \/ \E v \in ValueSet : Start(v, {}, TRUE)
    \/ \E v \in CoreValues : Start(v, {}, FALSE)
    \/ \E k \in {K0, K1, K2} : Start(GI(5), {k}, TRUE)

\* the run goes on until the process aborts or max commits were made
Session(max) == ~crashed /\ accepts < max

Running == Session(MaxAccepts)

(***************************************************************************)
(* The handlers of GSettingsViewer.                                        *)
(***************************************************************************)
\* an item id of search_results in the tree tr: the item that has this id,
\* -1 when none has; a generated id is never given to another item
Denoted(tr, iid) ==
    IF iid # <<>> /\ TreeExists(tr, iid) THEN ItemOf(tr, iid) ELSE 0 - 1

\* a number for the objects of this load that no editor uses for those of
\* an earlier load
ThisLoad ==
    CHOOSE n \in 1..(MaxEditors + 1) :
        /\ \A e \in 1..Len(editors) : editors[e].obj.load # n
        /\ \A m \in 1..(n - 1) : \E e \in 1..Len(editors) : editors[e].obj.load = m

\* an editor after the items of the tree were deleted: it keeps the GiValue
\* and GiKey objects it got from process_data, which no item holds any more
Detached(ed) ==
    IF ed.item # 0
    THEN [ed EXCEPT !.item = 0,
                    !.gi_value = gi_dict[ed.item],
                    !.gi_key = gi_dict[gi_dict[ed.item].key_id].meta,
                    !.obj = [load |-> ThisLoad, item |-> ed.item]]
    ELSE [ed EXCEPT !.key_item = 0]

\* an editor after GiKey.set_value has put a new GiValue into the key of
\* item: an editor opened on the item keeps the GiValue it got from
\* process_data, which the key holds no more, and the GiKey of the item
Replaced(ed, item) ==
    IF ed.item = item THEN [Detached(ed) EXCEPT !.key_item = item] ELSE ed

\* an editor after GiKey.set_default_value on the GiKey of item: the editors
\* that hold this GiKey see its new default
Defaulted(ed, item, default_value) ==
    IF ed.item = 0 /\ ed.key_item = item
    THEN [ed EXCEPT !.gi_key = GiKey_set_default_value(@, default_value)]
    ELSE ed

\* the Treeview sends <<TreeviewSelect>>: Tk puts the event at the end of its
\* queue, and the binding of line 192 runs when the event loop comes to it.
\* counts holds the numbers of events the versions of Tk send
TreeviewSelect(counts) ==
    \E sent \in counts :
        /\ selects + sent <= MaxSelects
        /\ selects' = selects + sent

\* what every load leaves behind: the new tree, no focused item and no
\* selection; the search results and the open editors are left as they are.
\* tree.delete sends <<TreeviewSelect>> when it finds a selected item among
\* those it deletes, which depends on the version of Tk
Loaded(stype, loc) ==
    LET r == load_schemas(stype, loc)
    IN  /\ tree' = r.tree
        /\ gi_dict' = r.gi_dict
        /\ status_bar' = r.status
        /\ schema_source' = IF r.exc = "GLib.Error" THEN schema_source
                            ELSE IF loc = LocNone THEN compiled.default ELSE compiled.dir
        /\ focus' = 0
        /\ selected' = FALSE
        /\ TreeviewSelect(IF selected THEN {0, 1} ELSE {0})
        /\ search_results' = [i \in 1..Len(result_ids) |-> Denoted(r.tree, result_ids[i])]
        /\ editors' = [e \in 1..Len(editors) |-> Detached(editors[e])]

\* load_default: the button that returns to the installed schemas
LoadDefault ==
    /\ Running
    /\ path_entry' = NoPath
    /\ schema_type' = "Installed"
    /\ Loaded("Installed", LocNone)
    /\ UNCHANGED <<store, writable, faulty, initial, location, last,
                   accepts, crashed, compiled, current_index,
                   search_box, timers, after_id, quiet, result_ids>>

\* schema_type_handle: a schema type is picked in the selector
SchemaTypeHandle(stype) ==
    /\ Running
    /\ schema_type' = stype
    /\ Loaded(stype, IF path_entry # NoPath THEN path_entry ELSE LocNone)
    /\ UNCHANGED <<store, writable, faulty, initial, path_entry, location,
                   last, accepts, crashed, compiled, current_index,
                   search_box, timers, after_id, quiet, result_ids>>

\* open_location: the directory dialog returns chosen ("" when cancelled,
\* a path that does not exist, or Loc)
OpenLocation(chosen) ==
    /\ Running
    /\ IF chosen # NoPath /\ ~DirectoryOk(chosen)
       THEN /\ status_bar' = "does not exist"
            /\ UNCHANGED <<tree, gi_dict, schema_source, focus, selected, selects,
                           location, schema_type, path_entry, search_results,
                           editors>>
       ELSE /\ location' = chosen
            /\ schema_type' = "Relocatable"
            /\ IF chosen # NoPath
               THEN /\ path_entry' = chosen
                    /\ Loaded("Relocatable", chosen)
               ELSE UNCHANGED <<tree, gi_dict, schema_source, focus, selected,
                                selects, status_bar, path_entry, search_results,
                                editors>>
    /\ UNCHANGED <<store, writable, faulty, initial, last, accepts, crashed,
                   compiled, current_index,
                   search_box, timers, after_id, quiet, result_ids>>

\* a text is typed into the path entry
PathEntryType(typed) ==
    /\ Running
    /\ path_entry' = typed
    /\ UNCHANGED <<store, writable, faulty, initial, tree, gi_dict, focus,
                   selected, selects, status_bar, schema_source, schema_type,
                   location, editors, last, accepts, crashed, search_results,
                   compiled, current_index, search_box, timers, after_id, quiet,
                   result_ids>>

\* Return in the path entry: load_schemas with the text of the entry
PathEntryReturn ==
    /\ Running
    /\ Loaded(schema_type, path_entry)
    /\ UNCHANGED <<store, writable, faulty, initial, schema_type, path_entry,
                   location, last, accepts, crashed, compiled, current_index,
                   search_box, timers, after_id, quiet, result_ids>>

\* SearchResults.next(): the index after the step to the next result
SearchResults_next(results, index) ==
    IF index < Len(results) - 1 THEN index + 1 ELSE index

\* a step back that does not stop at the first result
SearchResults_back(results, index) == index - 1

\* SearchResults.previous(): the index after the step to the previous result
SearchResults_previous(results, index) ==
    IF index > 0 THEN index - 1 ELSE index

\* SearchResults.current(), and what next() and previous() return: the item
\* at the index, counted from the end when it is negative, 0 for None
SearchResults_current(results, index) ==
    IF results = <<>> THEN 0
    ELSE IF index >= 0 THEN results[index + 1]
    ELSE results[Len(results) + index + 1]

\* selection_handle: the binding of <<TreeviewSelect>>, which reads the
\* focused item from the tree (selected_item, 0 for none); search results
\* whose current item is another one are reset.  Without a focused item
\* update_text_pane then raises TypeError, which changes nothing
selection_handle ==
    /\ LET selected_item == focus
       IN  IF search_results # <<>>
              /\ SearchResults_current(search_results, current_index) # selected_item
           THEN /\ search_results' = <<>> /\ result_ids' = <<>>
                /\ current_index' = 0 /\ search_box' = <<>>
           ELSE UNCHANGED <<search_results, result_ids, current_index, search_box>>
    /\ UNCHANGED <<store, writable, faulty, initial, tree, gi_dict, focus,
                   selected, status_bar, schema_source, schema_type, path_entry,
                   location, editors, last, accepts, crashed, compiled, timers,
                   after_id, quiet>>

\* the event loop comes to a queued <<TreeviewSelect>> and runs its binding
treeview_select ==
    /\ selects > 0
    /\ selects' = selects - 1
    /\ selection_handle

SelectionHandle == Running /\ treeview_select

\* select_and_focus(item): tree.selection_set(item) and tree.focus(item).
\* The selection command sends <<TreeviewSelect>>; when it leaves the
\* selection as it was, Tk 8.6 sends the event and later versions send none
select_and_focus(item) ==
    /\ focus' = item
    /\ selected' = TRUE
    /\ TreeviewSelect(IF selected /\ focus = item THEN {0, 1} ELSE {1})

\* a click on an item of the tree, or a step to it with the arrow keys: the
\* class binding of the Treeview gives the item the focus and the selection,
\* as select_and_focus does; selection_handle runs later, from the queue
click(item) ==
    /\ item \in 1..Len(tree)
    /\ select_and_focus(item)
    /\ UNCHANGED <<store, writable, faulty, initial, tree, gi_dict, status_bar,
                   schema_source, schema_type, path_entry, location, editors, last,
                   accepts, crashed, search_results, compiled, current_index,
                   search_box, timers, after_id, quiet, result_ids>>

Focus(item) == Running /\ click(item)

\* a Control-click on the focused item: the class binding toggles the
\* selection of the item and leaves the focus where it is
selection_toggle ==
    /\ focus # 0
    /\ selected' = ~selected
    /\ TreeviewSelect({1})
    /\ UNCHANGED <<store, writable, faulty, initial, tree, gi_dict, focus,
                   status_bar, schema_source, schema_type, path_entry, location,
                   editors, last, accepts, crashed, search_results, compiled,
                   current_index, search_box, timers, after_id, quiet,
                   result_ids>>

SelectionToggle == Running /\ selection_toggle

\* the user selects in the tree, and the event loop runs the binding
Select ==
    \/ \E item \in 1..Len(tree) : Focus(item)
    \/ SelectionToggle
    \/ SelectionHandle

\* GSettingsEditor.__init__ on the focused item: process_data and do_layout
\* raise when the item has no key and value or its default cannot be
\* resolved
EditorFor(item) ==
    IF ~has_keyvalue(gi_dict, item) THEN Raise("TypeError")
    ELSE LET gi_value == gi_dict[item]
             gi_key == gi_dict[gi_value.key_id].meta
             dv == IF gi_key.default_value.kind = "NoneType" THEN Ok(PyNone)
                   ELSE get_defaultvalue(tree, focus, gi_key.default_value, gi_value)
         IN  IF dv.exc # "" THEN dv
             ELSE Ok(EditorOn(item,
                              gi_value.value.kind = "bool" \/ gi_key.range.t = "enum",
                              tree, gi_dict))

\* edit_handle: a double click or Return on the tree; the editor it
\* constructs is placed over those that are open, which stay as they are
edit_handle ==
    /\ LET isschema == focus # 0 /\ gi_dict[focus].cls = "GiSchema"
           children == get_children(tree, focus)
           ed == EditorFor(focus)
       IN  IF isschema \/ children # <<>> \/ ed.exc # ""
           THEN editors' = editors
           ELSE /\ Len(editors) < MaxEditors
                /\ editors' = Append(editors, ed.res)
    /\ UNCHANGED <<store, writable, faulty, initial, tree, gi_dict, focus,
                   selected, selects, status_bar, schema_source, schema_type,
                   path_entry, location, last, accepts, crashed, search_results,
                   compiled, current_index, search_box, timers, after_id, quiet,
                   result_ids>>

EditHandle == Running /\ edit_handle

(***************************************************************************)
(* The handlers of GSettingsEditor.                                        *)
(***************************************************************************)
\* a coercion that falls back to zero when the text is no number
CoerceLenient(value, text) ==
    CASE value.kind = "bool" -> Ok(PyBool(IF text = T_False THEN FALSE ELSE text # <<>>))
      [] value.kind = "int" ->
            IF PyInt(text).exc # "" THEN Ok(PyIntV(0)) ELSE PyInt(text)
      [] value.kind = "float" ->
            IF PyFloat(text).exc # "" THEN Ok(PyFloatV(<<0, 0>>)) ELSE PyFloat(text)
      [] OTHER -> Ok(PyStr(text))

\* self.gi_value.get_type()(new_value), after 'False' was replaced by False
\* for a bool: the constructor of the value's Python type applied to the text
Coerce(value, text) ==
    CASE value.kind = "bool" -> Ok(PyBool(IF text = T_False THEN FALSE ELSE text # <<>>))
      [] value.kind = "int" -> PyInt(text)
      [] value.kind = "float" -> PyFloat(text)
      [] OTHER -> Ok(PyStr(text))

\* accept_change of the editor ed as a function of the state and the text
\* of its edit widget: the tree, gi_dict and store it leaves, the GiValue of
\* the editor and what it did
accept_change(ed, text) ==
    LET held == ed.item # 0
        gi_value == IF held THEN gi_dict[ed.item] ELSE ed.gi_value
        gi_key == IF held THEN gi_dict[gi_value.key_id].meta ELSE ed.gi_key
        selected_item == focus
        done == [tree |-> tree, gi_dict |-> gi_dict, store |-> store,
                 gi_value |-> ed.gi_value,
                 last |-> [NoLast EXCEPT !.op = "accept_change", !.item = selected_item,
                                         !.text = text]]
        \* tree.item('', values=...) configures the root item, which shows nothing
        tree1 == IF selected_item = 0 THEN tree
                 ELSE [tree EXCEPT ![selected_item].values = TclList(text)]
        coerced == Coerce(gi_value.value, text)
        gd1 == IF held
               THEN [gi_dict EXCEPT ![ed.item] = GiValue_set_value(@, coerced.res)]
               ELSE gi_dict
        own == IF held THEN ed.gi_value
               ELSE GiValue_set_value(ed.gi_value, coerced.res)
        schema == Lookup(schema_source, SchemaNamed(gi_key.schema_name).id)
        variant == rebuild_item(tree1, gd1, selected_item)
        accepted == SetValueAccepted(gi_key.key_name, variant.res)
    IN  IF gi_value.value.kind = "NoneType"
        THEN \* create_value raises outside the try block
             [done EXCEPT !.last.outcome = "uncaught",
                          !.last.exc = IF has_keyvalue(gi_dict, selected_item)
                                       THEN "AttributeError" ELSE "TypeError"]
        ELSE IF coerced.exc # ""
        THEN [done EXCEPT !.tree = tree1, !.last.outcome = "error",
                          !.last.exc = coerced.exc]
        ELSE IF ~schema
        THEN [done EXCEPT !.tree = tree1, !.gi_dict = gd1, !.gi_value = own,
                          !.last.outcome = "closed"]
        ELSE IF variant.exc # ""
        THEN [done EXCEPT !.tree = tree1, !.gi_dict = gd1, !.gi_value = own,
                          !.last.outcome = "error",
                          !.last.exc = variant.exc, !.last.variant = variant]
        ELSE IF SettingsAborts(gi_key.schema_name, location)
        THEN [done EXCEPT !.tree = tree1, !.gi_dict = gd1, !.gi_value = own,
                          !.last.outcome = "abort",
                          !.last.variant = variant]
        ELSE [done EXCEPT !.tree = tree1, !.gi_dict = gd1, !.gi_value = own,
                          !.store = IF accepted
                                    THEN [store EXCEPT ![gi_key.key_name] = variant.res]
                                    ELSE store,
                          !.last.outcome = "closed", !.last.calls = 1,
                          !.last.accepted = accepted, !.last.variant = variant]

\* self.destroy() of the editor number e of eds: the other editors stay
Destroyed(eds, e) ==
    [i \in 1..(Len(eds) - 1) |-> IF i < e THEN eds[i] ELSE eds[i + 1]]

\* the editors once the editor number e has set its GiValue to gi_value: an
\* editor that holds the same object of a deleted item sees the new value
Sharing(e, gi_value) ==
    [i \in 1..Len(editors) |->
        IF i = e \/ (editors[e].item = 0 /\ editors[i].item = 0
                     /\ editors[i].obj = editors[e].obj)
        THEN [editors[i] EXCEPT !.gi_value = gi_value]
        ELSE editors[i]]

\* accept_change of the editor number e: its OK button, or Return while it
\* has the keys, with text in its edit widget; a bool value is edited in a
\* read-only Combobox
commit(e, text) ==
    /\ e \in 1..Len(editors)
    /\ text \in (IF editors[e].combo THEN BoolChoices ELSE TextSet)
    /\ \E r \in {accept_change(editors[e], text)} :
           /\ tree' = r.tree
           /\ gi_dict' = r.gi_dict
           /\ store' = r.store
           /\ last' = r.last
           /\ crashed' = (r.last.outcome = "abort")
           /\ editors' = CASE r.last.outcome = "closed" ->
                                 Destroyed(Sharing(e, r.gi_value), e)
                           [] r.last.outcome = "error" ->
                                 [Sharing(e, r.gi_value) EXCEPT
                                      ![e].message = r.last.exc]
                           [] OTHER -> Sharing(e, r.gi_value)
    /\ accepts' = accepts + 1
    /\ UNCHANGED <<writable, faulty, initial, focus, selected, selects,
                   status_bar, schema_source, schema_type, path_entry, location,
                   search_results, compiled, current_index, search_box, timers,
                   after_id, quiet, result_ids>>

AcceptChange(e, text) == Running /\ commit(e, text)

\* reject_change of the editor number e: its Cancel button, Escape, or
\* Return on the Cancel button
reject_change(e) ==
    /\ e \in 1..Len(editors)
    /\ editors' = Destroyed(editors, e)
    /\ UNCHANGED <<store, writable, faulty, initial, tree, gi_dict, focus,
                   selected, selects, status_bar, schema_source, schema_type,
                   path_entry, location, last, accepts, crashed, search_results,
                   compiled, current_index, search_box, timers, after_id, quiet,
                   result_ids>>

RejectChange(e) == Running /\ reject_change(e)

\* GiValue.set_value called with the string text on the GiValue of an item
SetValueCall(item, text) ==
    /\ Running
    /\ has_keyvalue(gi_dict, item)
    /\ gi_dict' = [gi_dict EXCEPT ![item] = GiValue_set_value(@, PyStr(text))]
    /\ last' = [NoLast EXCEPT !.op = "set_value", !.outcome = "returned",
                              !.item = item, !.text = text]
    /\ accepts' = accepts + 1
    /\ UNCHANGED <<store, writable, faulty, initial, tree, focus, selected, selects,
                   status_bar, schema_source, schema_type, path_entry, location,
                   editors, crashed, search_results, compiled, current_index,
                   search_box, timers, after_id, quiet, result_ids>>

\* GiValue.set_variant called on the GiValue of an item
SetVariantCall(item, is_variant) ==
    /\ Running
    /\ has_keyvalue(gi_dict, item)
    /\ gi_dict' = [gi_dict EXCEPT ![item] = GiValue_set_variant(@, is_variant)]
    /\ last' = [NoLast EXCEPT !.op = "set_variant", !.outcome = "returned",
                              !.item = item]
    /\ accepts' = accepts + 1
    /\ UNCHANGED <<store, writable, faulty, initial, tree, focus, selected, selects,
                   status_bar, schema_source, schema_type, path_entry, location,
                   editors, crashed, search_results, compiled, current_index,
                   search_box, timers, after_id, quiet, result_ids>>

\* the GiKey of the item of a key, which holds the GiValue of the key
IsKey(item) == item \in 1..Len(gi_dict) /\ gi_dict[item].cls = "GiKey"

\* GiKey.set_default_value called on the GiKey of an item
SetDefaultValueCall(item, default_value) ==
    /\ Running
    /\ IsKey(item)
    /\ gi_dict' = [gi_dict EXCEPT ![item].meta = GiKey_set_default_value(@, default_value)]
    /\ last' = [NoLast EXCEPT !.op = "set_default_value", !.outcome = "returned",
                              !.item = item]
    /\ editors' = [e \in 1..Len(editors) |->
                       Defaulted(editors[e], item, default_value)]
    /\ accepts' = accepts + 1
    /\ UNCHANGED <<store, writable, faulty, initial, tree, focus, selected, selects,
                   status_bar, schema_source, schema_type, path_entry, location,
                   crashed, search_results, compiled, current_index,
                   search_box, timers, after_id, quiet, result_ids>>

\* GiKey.set_value called on the GiKey of an item with a GiValue made by
\* GiValue.factory for the key, as create_value makes it
KeySetValueCall(item, value) ==
    /\ Running
    /\ IsKey(item)
    /\ gi_dict' = [gi_dict EXCEPT ![item] =
                       GiKey_set_value(@, GiValue_factory(@, value, @.meta.key_type))]
    /\ last' = [NoLast EXCEPT !.op = "GiKey.set_value", !.outcome = "returned",
                              !.item = item]
    /\ editors' = [e \in 1..Len(editors) |-> Replaced(editors[e], item)]
    /\ accepts' = accepts + 1
    /\ UNCHANGED <<store, writable, faulty, initial, tree, focus, selected, selects,
                   status_bar, schema_source, schema_type, path_entry, location,
                   crashed, search_results, compiled, current_index,
                   search_box, timers, after_id, quiet, result_ids>>

(***************************************************************************)
(* The search box of GSettingsViewer.                                      *)
(***************************************************************************)
UpperCase ==
    <<"A", "B", "C", "D", "E", "F", "G", "H", "I", "J", "K", "L", "M",
      "N", "O", "P", "Q", "R", "S", "T", "U", "V", "W", "X", "Y", "Z">>

LowerCase ==
    <<"a", "b", "c", "d", "e", "f", "g", "h", "i", "j", "k", "l", "m",
      "n", "o", "p", "q", "r", "s", "t", "u", "v", "w", "x", "y", "z">>

\* s.lower()
Lower(s) ==
    [i \in 1..Len(s) |->
        IF CharIn(s[i], UpperCase)
        THEN LowerCase[CHOOSE j \in 1..Len(UpperCase) : UpperCase[j] = s[i]]
        ELSE s[i]]

\* do_search(search_text, root), as the loop over the children cs of root
\* that are still to visit: found is search_results, exc the KeyError of
\* gi_dict[item_id] for an item that was never registered
RECURSIVE search_items(_, _, _, _, _)
search_items(tr, gd, search_text, cs, found) ==
    IF cs = <<>> THEN [exc |-> "", found |-> found]
    ELSE IF gd[Head(cs)].cls = "none" THEN [exc |-> "KeyError", found |-> found]
    ELSE IF gd[Head(cs)].cls \notin {"GiSchema", "GiKey"}
    THEN search_items(tr, gd, search_text, Tail(cs), found)
    ELSE IF IsSubstring(Lower(search_text), Lower(tr[Head(cs)].text))
    THEN search_items(tr, gd, search_text, Tail(cs), Append(found, Head(cs)))
    ELSE LET rest(below) ==
                 IF below.exc # "" THEN below
                 ELSE search_items(tr, gd, search_text, Tail(cs), below.found)
         IN  rest(search_items(tr, gd, search_text, get_children(tr, Head(cs)),
                               found))

do_search(tr, gd, search_text, root) ==
    search_items(tr, gd, search_text, get_children(tr, root), <<>>)

\* the texts typed into the search box
SearchTexts ==
    { <<>>, <<"r">>, <<"K">>, <<"o", "r">>, <<"k", "1">>, <<"x">> }

\* search: the results are reset and, for a text that is not empty, filled
\* by do_search from the top of the tree; the first result gets the focus
\* and the selection
search(search_text) ==
    /\ LET r == IF search_text = <<>> THEN [exc |-> "", found |-> <<>>]
                ELSE do_search(tree, gi_dict, search_text, 0)
       IN  /\ search_results' = r.found
           /\ result_ids' = [i \in 1..Len(r.found) |-> tree[r.found[i]].iid]
           /\ current_index' = 0
           /\ IF r.exc = "" /\ r.found # <<>> THEN select_and_focus(r.found[1])
              ELSE UNCHANGED <<focus, selected, selects>>
           /\ last' = [NoLast EXCEPT !.op = "search", !.text = search_text,
                                     !.outcome = IF r.exc = "" THEN "returned"
                                                 ELSE "uncaught",
                                     !.exc = r.exc]
    /\ UNCHANGED <<store, writable, faulty, initial, tree, gi_dict, status_bar,
                   schema_source, schema_type, path_entry, location, editors,
                   accepts, crashed, compiled>>

\* search() runs on the text search_text, now in the search box
Search(search_text) ==
    /\ Running
    /\ search(search_text)
    /\ search_box' = search_text
    /\ UNCHANGED <<timers, after_id, quiet>>

\* search_next: Down in the search box; nothing happens without results or
\* on the last one, else the next result gets the focus
SearchNext ==
    /\ Running
    /\ LET moves == search_results # <<>>
                     /\ current_index # Len(search_results) - 1
           index == SearchResults_next(search_results, current_index)
           current == SearchResults_current(search_results, index)
       IN  /\ current_index' = IF moves THEN index ELSE current_index
           /\ IF moves /\ current > 0 THEN select_and_focus(current)
              ELSE UNCHANGED <<focus, selected, selects>>
           /\ last' = [NoLast EXCEPT !.op = "search_next",
                                     !.outcome = IF moves THEN "moved" ELSE "stayed"]
    /\ UNCHANGED <<store, writable, faulty, initial, tree, gi_dict, status_bar,
                   schema_source, schema_type, path_entry, location, editors,
                   accepts, crashed, search_results, compiled,
                   search_box, timers, after_id, quiet, result_ids>>

\* search_prev: Up in the search box; with results the previous one, or the
\* first one again, gets the focus
SearchPrev ==
    /\ Running
    /\ LET moves == search_results # <<>>
           index == SearchResults_previous(search_results, current_index)
           current == SearchResults_current(search_results, index)
       IN  /\ current_index' = IF moves THEN index ELSE current_index
           /\ IF moves /\ current > 0 THEN select_and_focus(current)
              ELSE UNCHANGED <<focus, selected, selects>>
           /\ last' = [NoLast EXCEPT !.op = "search_prev",
                                     !.outcome = IF moves /\ index # current_index
                                                 THEN "moved" ELSE "stayed"]
    /\ UNCHANGED <<store, writable, faulty, initial, tree, gi_dict, status_bar,
                   schema_source, schema_type, path_entry, location, editors,
                   accepts, crashed, search_results, compiled,
                   search_box, timers, after_id, quiet, result_ids>>

\* the handlers of an editing session on the tree as it is
NextEdit ==
    \/ Select
    \/ EditHandle
    \/ \E e \in 1..MaxEditors, text \in TextSet \cup BoolChoices : AcceptChange(e, text)
    \/ \E e \in 1..MaxEditors : RejectChange(e)

\* the handlers that load the tree from the source in use
NextReload ==
    \/ LoadDefault
    \/ \E stype \in {"Installed", "Relocatable"} : SchemaTypeHandle(stype)

\* the handlers that load the tree
NextLoad ==
    \/ NextReload
    \/ \E chosen \in {NoPath, Loc, BadPath} : OpenLocation(chosen)
    \/ \E typed \in {NoPath, Loc, BadPath} : PathEntryType(typed)
    \/ PathEntryReturn

\* editing sessions during which the tree is loaded again
Next == NextReload \/ NextEdit

Spec == Init /\ [][Next]_vars

\* the viewer alone: loading, no selection and no editor
SpecLoad == InitValues /\ [][NextLoad]_vars

\* editing sessions on the tree loaded at start, k1 a leaf of each type or
\* a compound of int leaves
SpecEdit ==
    /\ \E v \in LeafValues \cup CoreValues, w \in BOOLEAN : Start(v, {}, w)
    /\ [][NextEdit]_vars

\* the default values and the values handed to the setters of GiKey
SetterValues == { PyNone, PyIntV(7) }

\* editing sessions with direct calls of the setters of GiValue and GiKey
NextSetValue ==
    \/ NextEdit
    \/ \E item \in 1..Len(gi_dict), text \in SetValueTexts : SetValueCall(item, text)
    \/ \E item \in 1..Len(gi_dict), is_variant \in BOOLEAN :
           SetVariantCall(item, is_variant)
    \/ \E item \in 1..Len(gi_dict), default_value \in SetterValues :
           SetDefaultValueCall(item, default_value)
    \/ \E item \in 1..Len(gi_dict), value \in SetterValues :
           KeySetValueCall(item, value)

SpecSetValue ==
    /\ \E v \in LeafValues, w \in BOOLEAN : Start(v, {}, w)
    /\ [][NextSetValue]_vars

\* the values of k1 in the runs that browse the tree: the arrays and tuples
\* whose defaults are positional, nested two levels, and the file handle
\* type 'h', which is no base type of GlVariant
GH(n) == GLeaf("h", VN(n))

II == <<"(", "i", "i", ")">>

BrowseValues ==
    { GI(5),
      GArr(<<"i">>, <<GI(1), GI(2), GI(3)>>),
      GTuple(<<GI(5), GS(T_ab)>>),
      GArr(II, <<GTuple(<<GI(1), GI(2)>>)>>),
      GArr(<<"(", "i">> \o II \o <<")">>,
           <<GTuple(<<GI(1), GTuple(<<GI(2), GI(3)>>)>>)>>),
      GArr(SI, <<GEntry(GS(KA), GI(1)), GEntry(GS(KB), GI(2))>>),
      GH(3),
      GTuple(<<GH(3), GI(5)>>) }

\* browsing: loading and selecting
SpecBrowse ==
    /\ \E v \in BrowseValues : Start(v, {}, TRUE)
    /\ [][NextLoad \/ Select]_vars

\* list_schemas(False) lists the schemas in no promised order: systems that
\* hold a schema whose id extends another schema's id, listed in every order
Listings ==
    { [default |-> [installed |-> c.default.installed, relocatable |-> rel],
       dir |-> [installed |-> ins, relocatable |-> rel], keys |-> c.keys] :
         c \in Systems,
         rel \in { <<IdR, IdRS>>, <<IdRS, IdR>> },
         ins \in { <<IdD, IdDX, IdA>>, <<IdDX, IdD, IdA>>, <<IdD, IdA, IdDX>>,
                   <<IdDX, IdA, IdD>>, <<IdA, IdD, IdDX>>, <<IdA, IdDX, IdD>> } }

\* loading the schemas of such systems
SpecListing ==
    /\ \E c \in Listings, v \in CoreValues : StartIn(c, v, {}, TRUE)
    /\ [][NextLoad]_vars

\* values of k1, and so defaults of k1, that Python takes for false, and two
\* that it takes for true
DefaultValues ==
    { GB(FALSE), GI(0), GD(<<0, 0>>), GS(<<>>), GArr(<<"i">>, <<>>),
      GB(TRUE), GI(5) }

\* browsing keys with such defaults
SpecDefaults ==
    /\ \E v \in DefaultValues : Start(v, {}, TRUE)
    /\ [][NextLoad \/ Select]_vars

\* loading from the source in use, selecting and searching
NextSearch ==
    \/ NextReload
    \/ Select
    \/ \E search_text \in SearchTexts : Search(search_text)

SpecSearch ==
    /\ \/ \E v \in CoreValues : Start(v, {}, TRUE)
       \/ Start(GI(5), {K1}, TRUE)
    /\ [][NextSearch]_vars

\* the keys pressed and released in the search box: keysym, keysym_num and
\* the character the entry inserts when the key is pressed
Keys ==
    { [keysym |-> "k", keysym_num |-> 107, char |-> <<"k">>],
      [keysym |-> "BackSpace", keysym_num |-> 65288, char |-> <<>>],
      [keysym |-> "Up", keysym_num |-> 65362, char |-> <<>>],
      [keysym |-> "Down", keysym_num |-> 65364, char |-> <<>>],
      [keysym |-> "Shift_L", keysym_num |-> 65505, char |-> <<>>] }

\* the text of the entry once it has handled the press of the key
Typed(text, key) ==
    IF key.keysym = "BackSpace"
    THEN (IF text = <<>> THEN text ELSE SubSeq(text, 1, Len(text) - 1))
    ELSE text \o key.char

\* a search_handle that leaves the timer of the previous key pending
after_keep(pending, id) == pending

\* self.after_cancel(id): the timer with this id is no longer pending
after_cancel(pending, id) == {t \in pending : t.id # id}

\* self.after(ms, self.search): a new timer, and its id
after(pending, ms) ==
    LET id == after_id + 1
    IN  [id |-> id, pending |-> pending \cup {[id |-> id, due |-> ms]}]

\* lines 481-489: the key is Up or Down, another key above MAX_ASCII that
\* is not a deleting key, or a key that starts a search
KeyClass(key) ==
    IF key.keysym_num > MAX_ASCII
    THEN CASE key.keysym \in {"Up", "KP_Up"} -> "previous"
           [] key.keysym \in {"Down", "KP_Down"} -> "next"
           [] key.keysym \notin {"Delete", "BackSpace", "KP_Delete", "KP_BackSpace"}
                -> "ignored"
           [] OTHER -> "search"
    ELSE "search"

\* a key is pressed in the search box: the class binding of the Entry
\* changes the text, and no handler of the program runs
KeyPress(key) ==
    /\ Running
    /\ Len(Typed(search_box, key)) <= MaxTyped
    /\ search_box' = Typed(search_box, key)
    /\ UNCHANGED <<store, writable, faulty, initial, tree, gi_dict, focus,
                   selected, selects, status_bar, schema_source, schema_type,
                   path_entry, location, editors, last, accepts, crashed,
                   search_results, compiled, current_index, timers, after_id,
                   quiet, result_ids>>

\* search_handle(event): the KeyRelease binding of the search box, which
\* leaves the text as it is
search_handle(key) ==
    CASE KeyClass(key) = "previous" -> SearchPrev
      [] KeyClass(key) = "next" -> SearchNext
      [] KeyClass(key) = "ignored" ->
            /\ last' = [NoLast EXCEPT !.op = "search_handle", !.outcome = "ignored"]
            /\ UNCHANGED <<store, writable, faulty, initial, tree, gi_dict, focus,
                           selected, selects, status_bar, schema_source,
                           schema_type, path_entry, location, editors, accepts,
                           crashed, search_results, compiled, current_index,
                           search_box, timers, after_id, quiet, result_ids>>
      [] OTHER ->
            /\ after_id < MaxKeys
            /\ LET cancelled == IF after_id # 0 THEN after_cancel(timers, after_id)
                                ELSE timers
                   scheduled == after(cancelled, SEARCH_DELAY)
               IN  /\ timers' = scheduled.pending
                   /\ after_id' = scheduled.id
            /\ quiet' = 0
            /\ last' = [NoLast EXCEPT !.op = "search_handle", !.outcome = "scheduled",
                                      !.text = search_box]
            /\ UNCHANGED <<store, writable, faulty, initial, tree, gi_dict, focus,
                           selected, selects, status_bar, schema_source,
                           schema_type, path_entry, location, editors, accepts,
                           crashed, search_results, compiled, current_index,
                           search_box, result_ids>>

\* a key is released in the search box
KeyRelease(key) == Running /\ search_handle(key)

\* TimeStep milliseconds pass; a delay that has passed stays passed, and the
\* time since the last key is followed up to SEARCH_DELAY
Tick ==
    /\ Running
    /\ quiet < SEARCH_DELAY \/ \E t \in timers : t.due > 0
    /\ quiet' = IF quiet + TimeStep < SEARCH_DELAY THEN quiet + TimeStep
                ELSE SEARCH_DELAY
    /\ timers' = {[t EXCEPT !.due = IF t.due > TimeStep THEN t.due - TimeStep ELSE 0] :
                      t \in timers}
    /\ UNCHANGED <<store, writable, faulty, initial, tree, gi_dict, focus,
                   selected, selects, status_bar, schema_source, schema_type,
                   path_entry, location, editors, last, accepts, crashed,
                   search_results, compiled, current_index, search_box, after_id,
                   result_ids>>

\* the event loop runs the callback of a timer whose delay has passed
TimerFires ==
    /\ Running
    /\ \E t \in timers :
           /\ t.due = 0
           /\ timers' = timers \ {t}
    /\ search(search_box)
    /\ UNCHANGED <<search_box, after_id, quiet>>

\* typing in the search box, the timer, and selections in the tree
NextDebounce ==
    \/ \E key \in Keys : KeyPress(key)
    \/ \E key \in Keys : KeyRelease(key)
    \/ Tick
    \/ TimerFires
    \/ Select

SpecDebounce ==
    /\ Start(GI(5), {}, TRUE)
    /\ [][NextDebounce]_vars

\* searching and stepping through the results on the tree loaded at start
NextCursor ==
    \/ Select
    \/ \E search_text \in SearchTexts : Search(search_text)
    \/ SearchNext
    \/ SearchPrev

SpecCursor ==
    /\ \/ \E v \in CoreValues : Start(v, {}, TRUE)
       \/ Start(GI(5), {K1}, TRUE)
    /\ [][NextCursor]_vars

\* the values of k1 in the runs of several editing sessions
SessionValues == { GArr(<<"i">>, <<GI(1), GI(2)>>) }

\* editing sessions one after another, up to MaxSessions commits
NextSessions ==
    \/ \E item \in 1..Len(tree) : Session(MaxSessions) /\ click(item)
    \/ Session(MaxSessions) /\ treeview_select
    \/ Session(MaxSessions) /\ edit_handle
    \/ \E e \in 1..MaxEditors, text \in TextSet \cup BoolChoices :
           Session(MaxSessions) /\ commit(e, text)
    \/ \E e \in 1..MaxEditors : Session(MaxSessions) /\ reject_change(e)

SpecSessions ==
    /\ \E v \in SessionValues : StartIn(Compiled, v, {}, FALSE)
    /\ [][NextSessions]_vars

(***************************************************************************)
(* Properties: decomposition and recomposition.                            *)
(***************************************************************************)
\* the Python object of an encoded value, None where unpack() gives none
Native(g) == IF Unpack(g).exc # "" THEN PyNone ELSE Unpack(g).res

\* the items that hold a key and value
Registered == {i \in 1..Len(gi_dict) : has_keyvalue(gi_dict, i)}

\* the root items of the keys
KeyRoots == {i \in Registered : gi_dict[i].cls = "GiKey"}

\* no commit has touched the tree since load_schemas decomposed the store
Unedited == accepts = 0

\* what the parent of item i receives from gather_variant: the dict and list
\* branches gather their children as container elements
HandedUp(i) ==
    gather_variant(tree, gi_dict, i,
                   tree[i].parent \in Registered
                   /\ gi_dict[tree[i].parent].vtype[1] \in {"a", "[", "("})

\* the value below every nested variant wrapper
RECURSIVE StripVariants(_)
StripVariants(g) ==
    IF g.ts = <<"v">> /\ g.ch # <<>> THEN StripVariants(g.ch[1]) ELSE g

\* the encoded values a compound value holds, in encoding order (of a dict
\* entry: its value)
Elements(g) ==
    IF StartsWith(g.ts, <<"a", "{">>)
    THEN [j \in 1..Len(g.ch) |-> g.ch[j].ch[2]]
    ELSE g.ch

NoValue == GLeaf("?", NoVal)

\* the encoded value at the position of item i: the store's value at a key
\* root, below it the element at i's sibling index of what the parent shows
RECURSIVE ValueAt(_)
Shown(i) == IF i \in KeyRoots THEN ValueAt(i) ELSE StripVariants(ValueAt(i))

ValueAt(i) ==
    IF i \in KeyRoots THEN store[gi_dict[i].name]
    ELSE IF tree[i].parent \notin Registered THEN NoValue
    ELSE LET es == Elements(Shown(tree[i].parent))
             j == SiblingIndex(tree, i) + 1
         IN  IF j \in 1..Len(es) THEN es[j] ELSE NoValue

\* the name decomposition gives the element at item i
NameAt(i) ==
    IF i \in KeyRoots THEN gi_dict[i].name
    ELSE IF tree[i].parent \notin Registered THEN <<>>
    ELSE LET p == Shown(tree[i].parent)
             j == SiblingIndex(tree, i) + 1
         IN  IF p.ts = <<"v">> THEN tree[tree[i].parent].text
             ELSE IF StartsWith(p.ts, <<"a", "{">>)
             THEN (IF j \in 1..Len(p.ch) THEN p.ch[j].ch[1].val.s ELSE <<>>)
             ELSE NatToText(j - 1)

\* the element at item i is a variant, or the value inside the variant a
\* key root shows
Wrapped(i) ==
    /\ i \notin KeyRoots
    /\ \/ ValueAt(i).ts = <<"v">>
       \/ (tree[i].parent \in KeyRoots /\ Shown(tree[i].parent).ts = <<"v">>)

\* C1: round trip.  While no leaf was edited, recomposing any key from its
\* root item succeeds and yields the value the store holds for the key,
\* with the same type signature.
C1_RoundTrip ==
    Unedited =>
        \A i \in KeyRoots :
            /\ rebuild_item(tree, gi_dict, i).exc = ""
            /\ rebuild_item(tree, gi_dict, i).res = store[gi_dict[i].name]

\* C2: variant re-wrapping.  While no leaf was edited, what gather_variant
\* hands up for an item registered as variant-wrapped, leaf or compound,
\* is accepted at a position of type 'v' and is there a variant around a
\* value of the item's own type.
C2_VariantRewrapped ==
    Unedited =>
        \A i \in Registered :
            gi_dict[i].variant =>
                /\ HandedUp(i).exc = ""
                /\ Create(<<"v">>, HandedUp(i).res).exc = ""
                /\ Create(<<"v">>, HandedUp(i).res).res.ch[1].ts = gi_dict[i].vtype

\* C3: variant flattening.  In every freshly decomposed tree each element
\* of a compound value has exactly one item, at its position among its
\* siblings; an element that is a variant has no item of its own: the
\* item at its position shows the value inside the wrappers, under the
\* variant's name, and is registered as variant-wrapped.  Only a key
\* root shows a variant signature.
C3_VariantFlattening ==
    Unedited =>
        \A i \in Registered :
            /\ gi_dict[i].vtype = Shown(i).ts
            /\ (i \notin KeyRoots => gi_dict[i].vtype # <<"v">>)
            /\ gi_dict[i].variant = Wrapped(i)
            /\ tree[i].text = NameAt(i)
            /\ Len(get_children(tree, i)) =
                    (IF is_basic(Shown(i)) THEN 0 ELSE Len(Elements(Shown(i))))
            /\ \A c \in 1..Len(tree) : tree[c].parent = i => c \in Registered

\* C3 witness: a key whose value holds a variant inside a nested tuple is
\* loaded; the item at the variant's position is registered as
\* variant-wrapped and shows the int inside
C3_Witness ==
    /\ Unedited
    /\ \E i \in Registered :
            /\ gi_dict[i].variant
            /\ tree[i].parent \in Registered \ KeyRoots
            /\ ValueAt(i).ts = <<"v">>
            /\ gi_dict[i].vtype = <<"i">>
            /\ tree[i].values = <<<<"4", "2">>>>

\* C4: present maybe.  While no leaf was edited, gather_variant on a maybe
\* item with exactly one child returns the present value of the item's
\* signature.
C4_PresentMaybe ==
    Unedited =>
        \A i \in Registered :
            (gi_dict[i].vtype[1] = "m" /\ Len(get_children(tree, i)) = 1) =>
                /\ HandedUp(i).exc = ""
                /\ HandedUp(i).res.kind = "Variant"
                /\ GV(HandedUp(i).res).ts = gi_dict[i].vtype
                /\ Len(GV(HandedUp(i).res).ch) = 1

\* C5: absent maybe.  A maybe value without inner value is decomposed into
\* a compound item without children, and gather_variant on it returns the
\* absent value of exactly the item's signature.
C5_AbsentMaybe ==
    Unedited =>
        \A i \in Registered :
            (Shown(i).ts[1] = "m" /\ Shown(i).ch = <<>>) =>
                /\ gi_dict[i].compound
                /\ get_children(tree, i) = <<>>
                /\ HandedUp(i).exc = ""
                /\ HandedUp(i).res.kind = "Variant"
                /\ GV(HandedUp(i).res) = GNothing(Tail(gi_dict[i].vtype))

(***************************************************************************)
(* Properties: committing an edit.                                         *)
(***************************************************************************)
\* the open editors, by number
Open == 1..Len(editors)

\* the value of the leaf the editor number e edits
Edited(e) ==
    IF editors[e].item # 0 THEN gi_dict[editors[e].item].value
    ELSE editors[e].gi_value.value

\* the value of that GiValue after accept_change with the text
EditedAfter(e, text) ==
    IF editors[e].item # 0 THEN gi_dict'[editors[e].item].value
    ELSE accept_change(editors[e], text).gi_value.value

\* the editor number e is open after the step and shows the message
StaysOpen(e) == Len(editors') = Len(editors) /\ editors'[e].message # ""

\* the texts of TextSet that are decimal integers, and those that are
\* decimal numbers
IntTexts == { <<"7">>, <<"1", "2">>, <<"3", "0", "0">> }
NumberTexts == IntTexts \cup { <<"1", ".", "5">> }

\* C6: boolean coercion.  accept_change with "True" or "False" on a bool
\* leaf and GiValue.set_value with "True" or "False" on a 'b' leaf set the
\* leaf to that boolean; GiValue.set_value with any other text reports a
\* coercion error and leaves the leaf as it was.
C6_BooleanCoercion ==
    [][ /\ \A e \in Open, text \in BoolChoices :
              (AcceptChange(e, text) /\ Edited(e).kind = "bool") =>
                  EditedAfter(e, text) = PyBool(text = T_True)
        /\ \A item \in 1..Len(gi_dict), text \in SetValueTexts :
              (SetValueCall(item, text) /\ gi_dict[item].vtype = <<"b">>) =>
                  IF text \in BoolChoices
                  THEN gi_dict'[item].value = PyBool(text = T_True)
                  ELSE gi_dict' = gi_dict /\ last'.outcome = "error"
      ]_vars

\* C7: leaf coercion failure.  accept_change with a text that is no decimal
\* integer on an int leaf, or no decimal number on a float leaf, shows a
\* ValueError in the editor, which stays open, and makes no call of the
\* store's set_value: the store is as it was.
C7_LeafCoercionFailure ==
    [][ \A e \in Open, text \in TextSet :
            ( /\ AcceptChange(e, text)
              /\ \/ (Edited(e).kind = "int" /\ text \notin IntTexts)
                 \/ (Edited(e).kind = "float" /\ text \notin NumberTexts) )
            => /\ last'.outcome = "error"
               /\ last'.exc = "ValueError"
               /\ last'.calls = 0
               /\ store' = store
               /\ StaysOpen(e)
               /\ editors'[e].message = "ValueError"
      ]_vars

\* C7 witness: the text "ab" was committed on an int leaf and the editor
\* shows the ValueError
C7_Witness ==
    /\ last.op = "accept_change"
    /\ last.text = <<"a", "b">>
    /\ last.outcome = "error"
    /\ last.exc = "ValueError"
    /\ \E e \in Open : editors[e].message = "ValueError" /\ Edited(e).kind = "int"

\* C8: a failed commit leaves everything as it was.  When accept_change
\* ends in a caught error, the store, the value of the edited leaf and the
\* values displayed for the focused item are what they were before, the
\* editor is open and shows a message.
C8_FailedCommitFrame ==
    [][ \A e \in Open, text \in TextSet \cup BoolChoices :
            (AcceptChange(e, text) /\ last'.outcome = "error")
            => /\ store' = store
               /\ EditedAfter(e, text) = Edited(e)
               /\ tree'[focus].values = tree[focus].values
               /\ StaysOpen(e)
      ]_vars

\* C9: a rejected write is surfaced.  When the store's set_value does not
\* accept the recomposed value, accept_change shows a message, keeps the
\* editor open and has called set_value once.
C9_RejectionSurfaced ==
    [][ \A e \in Open, text \in TextSet \cup BoolChoices :
            (AcceptChange(e, text) /\ last'.calls > 0 /\ ~last'.accepted)
            => /\ StaysOpen(e)
               /\ last'.calls = 1
      ]_vars

(***************************************************************************)
(* Properties: loading.                                                    *)
(***************************************************************************)
\* every installed schema of the default source has its item and every key
\* of them whose decomposition does not raise has a registered root item
SoundKeysLoaded ==
    /\ \A n \in 1..Len(DefaultSource.installed) :
           TreeExists(tree, Join(DefaultSource.installed[n]))
    /\ \A n \in 1..Len(DefaultSource.installed) :
           \A k \in 1..Len(SchemaOf(DefaultSource.installed[n]).keys) :
               LET name == SchemaOf(DefaultSource.installed[n]).keys[k]
               IN  name \notin faulty =>
                       \E i \in KeyRoots :
                           gi_dict[i].name = name /\ tree[i].text = name

\* C10: decomposition errors are isolated per key.  A load of the
\* installed schemas of the default source leaves the item of every schema
\* and the registered root item of every key whose decomposition did not
\* raise, also when the decomposition of another key raised.
C10_ErrorsIsolatedPerKey == [][LoadDefault => SoundKeysLoaded']_vars

(***************************************************************************)
(* Properties: editing sessions.                                           *)
(***************************************************************************)
\* the leaves of the key the editor number e edits, the edited leaf excepted
OtherLeaves(e) ==
    IF editors[e].item = 0 THEN {}
    ELSE {i \in Registered : /\ ~gi_dict[i].compound
                             /\ i # editors[e].item
                             /\ gi_dict[i].key_id = gi_dict[editors[e].item].key_id}

\* C11: fresh tree per edit.  Whenever an editor is open, from the start of
\* its session to its commit, every leaf of the edited key other than the
\* edited one holds the value the store has at the leaf's position now:
\* nothing an earlier session left in the tree is recomposed.
C11_FreshTreePerEdit ==
    \A e \in Open : \A i \in OtherLeaves(e) : gi_dict[i].value = Native(Shown(i))

(***************************************************************************)
(* Properties: the default shown for the selected item.                    *)
(***************************************************************************)
\* the default of the key that owns the focused item, and what
\* update_text_pane and the editor get from get_defaultvalue for it
FocusDefault == gi_dict[gi_dict[focus].key_id].meta.default_value

Queried == get_defaultvalue(tree, focus, FocusDefault, gi_dict[focus])

\* the focused item is an element of a key whose default is a list or tuple
FocusIsElement ==
    /\ focus \in Registered \ KeyRoots
    /\ FocusDefault.kind \in {"list", "tuple"}

\* C12: default resolution.  For a focused item below the root of a key
\* whose default is a list or tuple, leaf or compound, get_defaultvalue
\* returns the element of the default at the item's sibling index; for the
\* root item of a key with a default, and for any item of a key whose
\* default is a scalar, it returns the default unchanged.
C12_DefaultResolution ==
    /\ (FocusIsElement /\ SiblingIndex(tree, focus) < Len(FocusDefault.items)) =>
            /\ Queried.exc = ""
            /\ Queried.res = FocusDefault.items[SiblingIndex(tree, focus) + 1]
    /\ ( /\ focus \in Registered
         /\ \/ focus \in KeyRoots /\ FocusDefault.kind # "NoneType"
            \/ FocusDefault.kind \in {"bool", "int", "float", "str"} ) =>
            /\ Queried.exc = ""
            /\ Queried.res = FocusDefault

\* C13: default arity mismatch.  For a focused element whose sibling index
\* is no position of the key's list or tuple default, get_defaultvalue
\* raises IndexError and returns nothing.
C13_DefaultArityMismatch ==
    (FocusIsElement /\ SiblingIndex(tree, focus) >= Len(FocusDefault.items)) =>
        Queried.exc = "IndexError"

(***************************************************************************)
(* Properties: dictionaries and arrays.                                    *)
(***************************************************************************)
\* the items of a dictionary value
DictItemsOf == {i \in Registered : StartsWith(gi_dict[i].vtype, <<"a", "{">>)}

\* the key strings of the entries of the encoded dictionary g
EntryKeys(g) == {g.ch[j].ch[1].val.s : j \in 1..Len(g.ch)}

\* the value of the last entry of g, in encoding order, with the key k
LastEntry(g, k) ==
    g.ch[CHOOSE j \in 1..Len(g.ch) :
            /\ g.ch[j].ch[1].val.s = k
            /\ \A l \in (j + 1)..Len(g.ch) : g.ch[l].ch[1].val.s # k].ch[2]

\* the children of item i, as a set
ChildSet(i) == {c \in 1..Len(tree) : tree[c].parent = i}

\* C14: dictionary key collision.  In every freshly decomposed tree the
\* children of a dictionary item have pairwise distinct names: one child
\* for each key string of the encoded dictionary, holding the value of the
\* last entry with that key.
C14_DictKeyCollision ==
    Unedited =>
        \A i \in DictItemsOf :
            /\ \A c, d \in ChildSet(i) : c # d => tree[c].text # tree[d].text
            /\ Cardinality(ChildSet(i)) = Cardinality(EntryKeys(Shown(i)))
            /\ \A k \in EntryKeys(Shown(i)) :
                   \E c \in ChildSet(i) :
                       /\ tree[c].text = k
                       /\ gi_dict[c].vtype = StripVariants(LastEntry(Shown(i), k)).ts
                       /\ is_basic(StripVariants(LastEntry(Shown(i), k))) =>
                              gi_dict[c].value =
                                  Native(StripVariants(LastEntry(Shown(i), k)))

\* the items of an array or dictionary value
ArrayItems == {i \in Registered : gi_dict[i].vtype[1] = "a"}

\* what gather_variant returns for the children of item i, gathered as
\* container elements, in child order
ChildResults(i) ==
    [j \in 1..Len(get_children(tree, i)) |->
        gather_variant(tree, gi_dict, get_children(tree, i)[j], TRUE)]

\* the entries of the mapping built from the children of item i: name and
\* gathered value, a later child replacing an earlier one of the same name
RECURSIVE MappingOf(_, _)
MappingOf(i, n) ==
    IF n = 0 THEN <<>>
    ELSE DictSet(MappingOf(i, n - 1), PyStr(tree[get_children(tree, i)[n]].text),
                 ChildResults(i)[n].res)

\* item i is recomposed as its signature's kind demands: a mapping by
\* child name for a dictionary, the sequence of the children's values in
\* child order for an array; wrapped as a variant of the item's signature
\* with the store's content when the item stands for a variant
RecomposedByKind(i) ==
    LET r == gather_variant(tree, gi_dict, i, TRUE)
        n == Len(get_children(tree, i))
        dictionary == gi_dict[i].vtype[2] = "{"
    IN  IF \E j \in 1..n : ChildResults(i)[j].exc # ""
        THEN r.exc # ""
        ELSE /\ r.exc = ""
             /\ IF r.res.kind = "Variant"
                THEN /\ gi_dict[i].variant
                     /\ GV(r.res).ts = gi_dict[i].vtype
                     /\ Native(GV(r.res)).kind = (IF dictionary THEN "dict" ELSE "list")
                     /\ Native(GV(r.res)) = Native(Shown(i))
                ELSE IF dictionary
                THEN r.res = PyDict(MappingOf(i, n))
                ELSE r.res = PyList([j \in 1..n |-> ChildResults(i)[j].res])

\* item i is decomposed as its signature's kind demands: one child for
\* every element in encoding order, named by the entry's key for a
\* dictionary and by the index for an array
DecomposedByKind(i) ==
    LET cs == get_children(tree, i)
        g == Shown(i)
    IN  /\ Len(cs) = Len(g.ch)
        /\ \A j \in 1..Len(cs) :
               tree[cs[j]].text = (IF gi_dict[i].vtype[2] = "{"
                                   THEN g.ch[j].ch[1].val.s
                                   ELSE NatToText(j - 1))

\* C15: array versus dictionary.  In every freshly decomposed tree, an
\* item whose signature starts with 'a' is decomposed and recomposed as a
\* dictionary exactly when the next character is '{' and as an array
\* otherwise, and parse_key and gather_variant agree on which it is.
C15_ArrayOrDictionary ==
    Unedited =>
        \A i \in ArrayItems :
            /\ parses_dict(gi_dict[i].vtype) = (gi_dict[i].vtype[2] = "{")
            /\ gathers_dict(gi_dict[i].vtype) = parses_dict(gi_dict[i].vtype)
            /\ DecomposedByKind(i)
            /\ RecomposedByKind(i)

\* C15 witness: an array of tuples 'a(ii)' was decomposed into a child
\* named "0" and is gathered as a list holding the list of the tuple
C15_Witness ==
    /\ Unedited
    /\ \E i \in ArrayItems :
            /\ gi_dict[i].vtype = <<"a", "(", "i", "i", ")">>
            /\ Len(get_children(tree, i)) = 1
            /\ tree[get_children(tree, i)[1]].text = <<"0">>
            /\ gather_variant(tree, gi_dict, i, TRUE).exc = ""
            /\ gather_variant(tree, gi_dict, i, TRUE).res =
                    PyList(<<PyList(<<PyIntV(1), PyIntV(2)>>)>>)

(***************************************************************************)
(* Properties: signatures the program does not know.                       *)
(***************************************************************************)
\* a signature whose first character is neither a base type nor a
\* composite type of GlVariant.  (A GLib.Variant never carries a truncated
\* or unbalanced type string; the file handle type 'h' is the well-formed
\* signature that starts with a character the program does not know.)
Unrecognized(ts) ==
    ~CharIn(ts[1], base_type_sig) /\ ~CharIn(ts[1], composite_type_sig)

\* C16: an unknown signature is a hard error.  No key whose value has a
\* signature that starts with an unrecognized character has an item in
\* the tree, no item is registered with such a signature, and recomposing
\* from such an item raises.
C16_UnknownSignatureFails ==
    /\ \A k \in KeyNames :
           Unrecognized(store[k].ts) => \A i \in 1..Len(tree) : tree[i].text # k
    /\ \A i \in Registered :
           /\ ~Unrecognized(gi_dict[i].vtype)
           /\ Unrecognized(gi_dict[i].vtype) =>
                  /\ HandedUp(i).exc # ""
                  /\ rebuild_item(tree, gi_dict, i).exc # ""

(***************************************************************************)
(* Properties: cancelling and committing.                                  *)
(***************************************************************************)
\* C17: cancel is always safe.  reject_change writes nothing to the store
\* and leaves every tree item and every GiValue as it was when the editor
\* it closes was opened.
C17_CancelIsSafe ==
    [][ \A e \in Open :
            reject_change(e) =>
                /\ store' = store
                /\ tree' = editors[e].shown
                /\ gi_dict' = editors[e].held
      ]_vars

\* the name of the key that owns the leaf the editor number e edits
EditedKey(e) ==
    IF editors[e].item # 0 THEN gi_dict[gi_dict[editors[e].item].key_id].meta.key_name
    ELSE editors[e].gi_key.key_name

\* C18: one edit, one commit.  Every accept_change that changes the value
\* of the edited leaf and closes the editor has called the store's
\* set_value once, and the store has taken the value: the key of the
\* edited leaf now holds the value recomposed from the key's root item.
C18_OneEditOneCommit ==
    [][ \A e \in Open, text \in TextSet \cup BoolChoices :
            ( /\ AcceptChange(e, text)
              /\ Len(editors') < Len(editors)
              /\ EditedAfter(e, text) # Edited(e) )
            => /\ last'.calls = 1
               /\ last'.accepted
               /\ rebuild_item(tree', gi_dict', editors[e].item).exc = ""
               /\ store'[EditedKey(e)]
                      = rebuild_item(tree', gi_dict', editors[e].item).res
      ]_vars

(***************************************************************************)
(* Properties: searching.                                                  *)
(***************************************************************************)
\* the schema and key items whose label contains the text, whatever the
\* case of the letters
Matching(search_text) ==
    {i \in 1..Len(tree) :
        /\ gi_dict[i].cls \in {"GiSchema", "GiKey"}
        /\ IsSubstring(Lower(search_text), Lower(tree[i].text))}

\* C19: search completeness.  After search() has run with a text that is
\* not empty, search_results holds every schema item and key item whose
\* label contains the text, those below another matching item included,
\* each once, and no other item.
C19_SearchCompleteness ==
    [][ \A search_text \in SearchTexts \ {<<>>} :
            (Search(search_text) /\ last'.outcome = "returned")
            => /\ {search_results'[j] : j \in 1..Len(search_results')}
                      = Matching(search_text)
               /\ Len(search_results') = Cardinality(Matching(search_text))
      ]_vars

(***************************************************************************)
(* Properties: what a commit writes.                                       *)
(***************************************************************************)
\* the encoded values a and b are the same, or of the same shape, with the
\* same signatures, keys, order and wrappers, and differ in one leaf only
RECURSIVE OneLeafApart(_, _)
OneLeafApart(a, b) ==
    \/ a = b
    \/ /\ a.ts = b.ts
       /\ Len(a.ch) = Len(b.ch)
       /\ IF a.ch = <<>> THEN Len(a.ts) = 1
          ELSE \E j \in 1..Len(a.ch) :
                  /\ OneLeafApart(a.ch[j], b.ch[j])
                  /\ \A l \in 1..Len(a.ch) : l # j => a.ch[l] = b.ch[l]

\* C20: single-leaf edit frame.  When accept_change commits and the store
\* takes the value, the value written for the key differs from the one the
\* store held, which the tree was decomposed from, in one leaf only, the
\* leaf at the position of the edited item, which holds the new value; no
\* other key is written.
C20_SingleLeafFrame ==
    [][ \A e \in Open, text \in TextSet \cup BoolChoices :
            (AcceptChange(e, text) /\ last'.accepted)
            => \E it \in {editors[e].item}, k \in {EditedKey(e)} :
                  /\ OneLeafApart(store[k], store'[k])
                  /\ \A o \in KeyNames \ {k} : store'[o] = store[o]
                  /\ it # 0 /\ Native(Shown(it))' = gi_dict'[it].value
      ]_vars

(***************************************************************************)
(* Properties: where the editor opens.                                     *)
(***************************************************************************)
\* C21: the editor opens only on primitive leaves.  Every edit_handle that
\* opens the editor opens it on a selected item that is registered as a
\* value, is not a schema and is not compound, whether the item has
\* children or not.
C21_EditorOnLeavesOnly ==
    [][ (EditHandle /\ Len(editors') > Len(editors))
        => /\ has_keyvalue(gi_dict, focus)
           /\ gi_dict[focus].cls # "GiSchema"
           /\ ~gi_dict[focus].compound
      ]_vars

(***************************************************************************)
(* Properties: the status markers of load_schemas.                         *)
(***************************************************************************)
\* the marker load_schemas decides for the listed schema id (lines 306-327),
\* <<>> when it reads the schema's keys instead
MarkerOf(stype, loc, id) ==
    LET source == IF loc = LocNone THEN compiled.default ELSE compiled.dir
    IN  IF stype = "Relocatable" /\ loc \in {LocNone, NoPath} THEN T_Relocatable
        ELSE IF ~Lookup(source, id) THEN <<>>
        ELSE IF ~Lookup(compiled.default, id) THEN T_NotInstalled
        ELSE IF loc \notin {LocNone, NoPath} /\ SchemaOf(id).path # NoPath
                /\ SchemaOf(id).path # loc
        THEN T_WrongLocation
        ELSE <<>>

\* the schema ids load_schemas(stype, loc) goes through
Listed(stype, loc) ==
    LET source == IF loc = LocNone THEN compiled.default ELSE compiled.dir
    IN  IF stype = "Installed" THEN source.installed ELSE source.relocatable

\* C22: the status markers land on the right node.  After every load that
\* went through the listed schemas, whatever their order, the item of each
\* schema for which load_schemas decided a marker shows that marker, also
\* when all the items of its id existed before it was processed.
C22_MarkersOnTheirSchema ==
    [][ \A stype \in {"Installed", "Relocatable"}, loc \in {LocNone, Loc} :
            (Loaded(stype, loc) /\ status_bar' = "source")
            => \A n \in 1..Len(Listed(stype, loc)) :
                  \E id \in {Listed(stype, loc)[n]} :
                     MarkerOf(stype, loc, id) # <<>>
                     => tree'[ItemOf(tree', Join(id))].values
                            = <<MarkerOf(stype, loc, id)>>
      ]_vars

(***************************************************************************)
(* Properties: the metadata of the keys.                                   *)
(***************************************************************************)
\* C23: every schema default is recorded.  For every key of the tree, the
\* default GiKey.factory stored, which get_default_value returns, is the
\* unpacked default of the schema key, also when it is False, 0, 0.0, the
\* empty string or an empty container.
C23_DefaultRecorded ==
    \A i \in KeyRoots :
        gi_dict[i].meta.default_value
            = Native(KeyDefault(gi_dict[i].meta.key_name))

(***************************************************************************)
(* Properties: the cursor in the search results.                           *)
(***************************************************************************)
\* the last index of the results, 0 for none
LastIndex == IF search_results = <<>> THEN 0 ELSE Len(search_results) - 1

\* the index is a position of the results, and current() is None exactly
\* for an empty list
CursorInBounds ==
    /\ current_index \in 0..LastIndex
    /\ SearchResults_current(search_results, current_index) = 0
           <=> search_results = <<>>

\* search_next and search_prev move by one and stop at the ends, and a reset
\* leaves the index 0 with the empty list
CursorSteps ==
    /\ SearchNext =>
          /\ search_results' = search_results
          /\ current_index' = IF current_index < LastIndex
                              THEN current_index + 1 ELSE LastIndex
    /\ SearchPrev =>
          /\ search_results' = search_results
          /\ current_index' = IF current_index > 0 THEN current_index - 1 ELSE 0
    /\ (search_results # <<>> /\ search_results' = <<>>) => current_index' = 0

\* C24: the search cursor stays in bounds.  After any sequence of search,
\* search_next, search_prev and selections, 0 <= current_index <=
\* max(0, len - 1); next and previous stop at the last and first result
\* and never wrap; current() is None exactly when there are no results;
\* a reset leaves index 0 and no results.
C24_CursorInBounds == []CursorInBounds /\ [][CursorSteps]_vars

\* search_next on the last of several results, run after a click on another
\* item and before the <<TreeviewSelect>> of that click is handled
C24_Witness ==
    /\ Len(search_results) >= 2
    /\ last.op = "search_next" /\ last.outcome = "stayed"
    /\ current_index = Len(search_results) - 1
    /\ selects > 0
    /\ focus # SearchResults_current(search_results, current_index)

(***************************************************************************)
(* Properties: the delayed search.                                         *)
(***************************************************************************)
\* at most one search timer is pending
OneTimer == Cardinality(timers) <= 1

\* what the steps of the search box do to the timers
DebounceSteps ==
    /\ \A key \in Keys :
          (KeyRelease(key) /\ KeyClass(key) = "search")
          => /\ timers \cap timers' = {}
             /\ \E t \in timers' : t.id = after_id' /\ t.due = SEARCH_DELAY
    /\ \A key \in Keys :
          (KeyRelease(key) /\ KeyClass(key) \in {"previous", "next"})
          => timers' = timers /\ after_id' = after_id
    /\ TimerFires
          => /\ quiet >= SEARCH_DELAY
             /\ last'.op = "search" /\ last'.text = search_box
             /\ timers' = {}

\* C25: search debounce.  Whatever the interleaving of key releases in the
\* search box and timer expiries, at most one search timer is pending; a
\* key release that starts a search cancels the pending timer; search runs
\* once per burst, when no such key was released for SEARCH_DELAY, on the
\* text the box holds at that moment; Up and Down schedule nothing.
C25_SearchDebounce == []OneTimer /\ [][DebounceSteps]_vars

\* the search ran after a burst of several keys
C25_Witness ==
    /\ last.op = "search" /\ last.text # <<>>
    /\ after_id >= 2
    /\ timers = {}
    /\ quiet = SEARCH_DELAY

====
